---- MODULE Spec2Model ----
(***************************************************************************)
(* Model of the backend of the marketing dashboard.                        *)
(*                                                                         *)
(* Scheduler (backend/scheduler): createScheduledJob, updateScheduledJob,  *)
(* deleteScheduledJob, triggerJobExecution, processScheduledJobs,          *)
(* executeScheduledJob, calculateNextRun over the tables of                *)
(* 1_create_schedules_tables.up.sql.                                       *)
(* Dashboard (backend/dashboard): analyze with parseCSVContent,            *)
(* applyFilters, callOpenAI, parseAIResponse and createFallbackAnalysis;   *)
(* upload with validateCSVContent.                                         *)
(* Integrations (backend/integrations): convertToCSV, getGAData,           *)
(* getFacebookData.                                                        *)
(*                                                                         *)
(* Time is an instant counted in minutes since 2024-01-01T00:00 (a Monday) *)
(* in the server's zone; day d is the d-th day after 2024-01-01.           *)
(***************************************************************************)
EXTENDS Integers, Sequences, FiniteSets, TLC

VARIABLES
    now,          \* the clock read by new Date() and by NOW()
    ticks,        \* how often the clock has advanced
    jobs,         \* table scheduled_jobs: id -> row
    nextJobId,    \* ids handed out so far (ids are never reused)
    executions,   \* table job_executions: id -> row
    nextExecId,   \* the BIGSERIAL of job_executions
    analyses,     \* table historical_analyses (set of rows)
    tasks,        \* the executeScheduledJob calls in flight: executionId -> frame
    poll,         \* the frame of the processScheduledJobs call in flight
    calc,         \* the frame of a bare calculateNextRun call
    execLimit,    \* the last execution id the model hands out
    dash          \* the frame of a dashboard or integration call in flight

vars == <<now, ticks, jobs, nextJobId, executions, nextExecId, analyses,
          tasks, poll, calc, execLimit, dash>>

-----------------------------------------------------------------------------
(* Bounds of the model *)

MaxJobs == 1
MaxExec == 1
MaxRunExec == 3
MaxTicks == 1
MaxCalcDay == 125
MaxPollJobs == 13

-----------------------------------------------------------------------------
(* Optional numbers of a request or a row: a number, SQL NULL / JS null,   *)
(* or JS undefined.                                                        *)

Num(n) == [k |-> "num", n |-> n]
NULL == [k |-> "null", n |-> 0]
UNDEFINED == [k |-> "undefined", n |-> 0]

\* ToNumber of a value used in arithmetic: null is 0.
ToNumber(v) == v.n

\* `v || null` of a template parameter: 0 and undefined become NULL.
OrNull(v) == IF v.k = "num" /\ v.n # 0 THEN v ELSE NULL

\* The remainder operator of JavaScript: the sign follows the dividend.
JsRem(a, b) == IF a >= 0 THEN a % b ELSE 0 - ((0 - a) % b)

-----------------------------------------------------------------------------
(* The calendar behind Date: months are counted from January 2024 = 0.     *)

MinutesPerDay == 1440

MonthLen(mi) ==
    LET m == (mi + 120) % 12
    IN  IF m = 1 THEN (IF mi = 1 THEN 29 ELSE 28)
        ELSE IF m \in {3, 5, 8, 10} THEN 30 ELSE 31

RECURSIVE DaysBefore(_)
DaysBefore(mi) ==
    IF mi = 0 THEN 0
    ELSE IF mi > 0 THEN DaysBefore(mi - 1) + MonthLen(mi - 1)
    ELSE DaysBefore(mi + 1) - MonthLen(mi)

\* December 2022 .. December 2025
MonthRange == (0 - 13) .. 23

\* The day on which month mi begins.
FirstDayTable == [mi \in (0 - 13) .. 24 |-> DaysBefore(mi)]
FirstDay(mi) == FirstDayTable[mi]

DayOf(t) == IF t >= 0 THEN t \div MinutesPerDay
            ELSE 0 - (((0 - t) + MinutesPerDay - 1) \div MinutesPerDay)
MinuteOf(t) == t - DayOf(t) * MinutesPerDay

MonthTable ==
    [d \in FirstDayTable[0 - 13] .. (FirstDayTable[24] - 1) |->
        CHOOSE mi \in MonthRange :
            FirstDayTable[mi] <= d /\ d < FirstDayTable[mi + 1]]
getMonth(t) == MonthTable[DayOf(t)]
getDate(t) == DayOf(t) - FirstDay(getMonth(t)) + 1
getDay(t) == (DayOf(t) + 1 + 700) % 7

\* Date.prototype.setHours(h, m, 0, 0)
setHours(t, h, m) == DayOf(t) * MinutesPerDay + h * 60 + m
\* Date.prototype.setDate(n): day n of the month of t, overflowing either way
setDate(t, n) == (FirstDay(getMonth(t)) + n - 1) * MinutesPerDay + MinuteOf(t)
\* Date.prototype.setMonth(mi): same day number in month mi, overflowing
setMonth(t, mi) == (FirstDay(mi) + getDate(t) - 1) * MinutesPerDay + MinuteOf(t)

-----------------------------------------------------------------------------
(* calculateNextRun: the reference time is the parameter t (new Date()).   *)
(* timeOfDay is the pair <<hours, minutes>> that split(':').map(Number)    *)
(* yields; the timezone argument is never read.                            *)

\* calculateNextRun with the daily comparison strict: a call made exactly at
\* timeOfDay answers the present instant.
calculateNextRunLate(t, frequency, timeOfDay, dayOfWeek, dayOfMonth, timezone) ==
    LET base == setHours(t, timeOfDay[1], timeOfDay[2])
    IN  CASE frequency = "daily" ->
               IF base < t THEN setDate(base, getDate(base) + 1) ELSE base
          [] frequency = "weekly" ->
               IF dayOfWeek.k # "undefined"
               THEN LET currentDay == getDay(base)
                        daysUntilTarget ==
                            JsRem(ToNumber(dayOfWeek) - currentDay + 7, 7)
                    IN  IF daysUntilTarget = 0 /\ base <= t
                        THEN setDate(base, getDate(base) + 7)
                        ELSE setDate(base, getDate(base) + daysUntilTarget)
               ELSE base
          [] frequency = "monthly" ->
               IF dayOfMonth.k # "undefined"
               THEN LET first == setDate(base, ToNumber(dayOfMonth))
                    IN  IF first <= t
                        THEN setDate(setMonth(first, getMonth(first) + 1),
                                     ToNumber(dayOfMonth))
                        ELSE first
               ELSE base
          [] OTHER -> base

\* calculateNextRun without the weekly branch's full-week advance.
calculateNextRunNoWrap(t, frequency, timeOfDay, dayOfWeek, dayOfMonth, timezone) ==
    LET base == setHours(t, timeOfDay[1], timeOfDay[2])
    IN  CASE frequency = "daily" ->
               IF base <= t THEN setDate(base, getDate(base) + 1) ELSE base
          [] frequency = "weekly" ->
               IF dayOfWeek.k # "undefined"
               THEN LET currentDay == getDay(base)
                        daysUntilTarget ==
                            JsRem(ToNumber(dayOfWeek) - currentDay + 7, 7)
                    IN  setDate(base, getDate(base) + daysUntilTarget)
               ELSE base
          [] frequency = "monthly" ->
               IF dayOfMonth.k # "undefined"
               THEN LET first == setDate(base, ToNumber(dayOfMonth))
                    IN  IF first <= t
                        THEN setDate(setMonth(first, getMonth(first) + 1),
                                     ToNumber(dayOfMonth))
                        ELSE first
               ELSE base
          [] OTHER -> base

\* The minutes a zone's wall clock is ahead of UTC (no daylight saving in
\* the months covered).
ZoneOffset(timezone) == IF timezone = "America/New_York" THEN 0 - 300 ELSE 0

\* calculateNextRun with the wall clock of the timezone argument.
calculateNextRunInZone(t, frequency, timeOfDay, dayOfWeek, dayOfMonth, timezone) ==
    LET local == t + ZoneOffset(timezone)
        base == setHours(local, timeOfDay[1], timeOfDay[2])
        shifted ==
          CASE frequency = "daily" ->
               IF base <= local THEN setDate(base, getDate(base) + 1) ELSE base
          [] frequency = "weekly" ->
               IF dayOfWeek.k # "undefined"
               THEN LET currentDay == getDay(base)
                        daysUntilTarget ==
                            JsRem(ToNumber(dayOfWeek) - currentDay + 7, 7)
                    IN  IF daysUntilTarget = 0 /\ base <= local
                        THEN setDate(base, getDate(base) + 7)
                        ELSE setDate(base, getDate(base) + daysUntilTarget)
               ELSE base
          [] frequency = "monthly" ->
               IF dayOfMonth.k # "undefined"
               THEN LET first == setDate(base, ToNumber(dayOfMonth))
                    IN  IF first <= local
                        THEN setDate(setMonth(first, getMonth(first) + 1),
                                     ToNumber(dayOfMonth))
                        ELSE first
               ELSE base
          [] OTHER -> base
    IN  shifted - ZoneOffset(timezone)

calculateNextRun(t, frequency, timeOfDay, dayOfWeek, dayOfMonth, timezone) ==
    LET base == setHours(t, timeOfDay[1], timeOfDay[2])
    IN  CASE frequency = "daily" ->
               IF base <= t THEN setDate(base, getDate(base) + 1) ELSE base
          [] frequency = "weekly" ->
               IF dayOfWeek.k # "undefined"
               THEN LET currentDay == getDay(base)
                        daysUntilTarget ==
                            JsRem(ToNumber(dayOfWeek) - currentDay + 7, 7)
                    IN  IF daysUntilTarget = 0 /\ base <= t
                        THEN setDate(base, getDate(base) + 7)
                        ELSE setDate(base, getDate(base) + daysUntilTarget)
               ELSE base
          [] frequency = "monthly" ->
               IF dayOfMonth.k # "undefined"
               THEN LET first == setDate(base, ToNumber(dayOfMonth))
                    IN  IF first <= t
                        THEN setDate(setMonth(first, getMonth(first) + 1),
                                     ToNumber(dayOfMonth))
                        ELSE first
               ELSE base
          [] OTHER -> base

-----------------------------------------------------------------------------
(* Rows and requests *)

At(d, h, m) == d * MinutesPerDay + h * 60 + m

\* CHECK (day_of_week BETWEEN 0 AND 6), CHECK (day_of_month BETWEEN 1 AND 31):
\* a NULL passes a CHECK.
CheckDayOfWeek(v) == v.k = "null" \/ (v.k = "num" /\ v.n >= 0 /\ v.n <= 6)
CheckDayOfMonth(v) == v.k = "null" \/ (v.k = "num" /\ v.n >= 1 /\ v.n <= 31)

\* A field of UpdateScheduledJobRequest that the request does not carry; a
\* timeOfDay that it does not carry is the empty pair.
ABSENT == "absent"
NoTime == <<>>

Frequencies == {"daily", "weekly", "monthly"}
TimesOfDay == {<<9, 0>>}

\* The createScheduledJob requests the model sends.
CreateRequests ==
    { [frequency |-> "daily", timeOfDay |-> <<9, 0>>, dayOfWeek |-> UNDEFINED,
       dayOfMonth |-> UNDEFINED, timezone |-> "UTC", autoAnalyze |-> a]
        : a \in BOOLEAN }
    \cup
    { [frequency |-> "weekly", timeOfDay |-> <<9, 0>>, dayOfWeek |-> w,
       dayOfMonth |-> UNDEFINED, timezone |-> "UTC", autoAnalyze |-> TRUE]
        : w \in {UNDEFINED, Num(0), Num(1), Num(7)} }
    \cup
    { [frequency |-> "monthly", timeOfDay |-> <<9, 0>>, dayOfWeek |-> UNDEFINED,
       dayOfMonth |-> m, timezone |-> "UTC", autoAnalyze |-> TRUE]
        : m \in {UNDEFINED, Num(31), Num(32)} }

\* The updateScheduledJob requests the model sends (jobId apart).
NoUpdate ==
    [frequency |-> ABSENT, timeOfDay |-> NoTime, dayOfWeek |-> UNDEFINED,
     dayOfMonth |-> UNDEFINED, timezone |-> ABSENT, isActive |-> ABSENT]
UpdateRequests ==
    { NoUpdate }
    \cup { [NoUpdate EXCEPT !.isActive = b] : b \in {"true", "false"} }
    \cup { [NoUpdate EXCEPT !.frequency = f] : f \in {"weekly", "monthly"} }
    \cup { [NoUpdate EXCEPT !.dayOfWeek = Num(9)],
           [NoUpdate EXCEPT !.dayOfMonth = Num(32)],
           [NoUpdate EXCEPT !.timezone = "UTC"],
           [NoUpdate EXCEPT !.timeOfDay = <<0, 0>>] }

-----------------------------------------------------------------------------
(* createScheduledJob *)

\* The validation of the frequency-specific fields; "ok" or the error thrown.
CreateValidation(req) ==
    IF req.frequency = "weekly"
       /\ (req.dayOfWeek.k = "undefined" \/ req.dayOfWeek.n < 0 \/ req.dayOfWeek.n > 6)
    THEN "InvalidArgument"
    ELSE IF req.frequency = "monthly"
            /\ (req.dayOfMonth.k = "undefined" \/ req.dayOfMonth.n < 1
                \/ req.dayOfMonth.n > 31)
    THEN "InvalidArgument"
    ELSE "ok"

\* The row the INSERT of createScheduledJob writes.
CreatedRow(req, t) ==
    [frequency   |-> req.frequency,
     timeOfDay   |-> req.timeOfDay,
     dayOfWeek   |-> OrNull(req.dayOfWeek),
     dayOfMonth  |-> OrNull(req.dayOfMonth),
     timezone    |-> req.timezone,
     isActive    |-> TRUE,
     lastRun     |-> NULL,
     nextRun     |-> calculateNextRun(t, req.frequency, req.timeOfDay,
                                      req.dayOfWeek, req.dayOfMonth, req.timezone),
     autoAnalyze |-> req.autoAnalyze]

\* What the request ends with: "ok", or the kind of the APIError (a failure
\* of the INSERT, a CHECK of the table included, is rethrown as Internal).
CreateResponse(req, t, dbOk) ==
    IF CreateValidation(req) # "ok" THEN CreateValidation(req)
    ELSE IF ~dbOk \/ ~CheckDayOfWeek(CreatedRow(req, t).dayOfWeek)
            \/ ~CheckDayOfMonth(CreatedRow(req, t).dayOfMonth)
    THEN "Internal"
    ELSE "ok"

Extend(f, x, v) == [y \in DOMAIN f \cup {x} |-> IF y = x THEN v ELSE f[y]]
Restrict(f, S) == [x \in S |-> f[x]]

createScheduledJob(req, dbOk) ==
    /\ nextJobId <= MaxJobs
    /\ IF CreateResponse(req, now, dbOk) = "ok"
       THEN /\ jobs' = Extend(jobs, nextJobId, CreatedRow(req, now))
            /\ nextJobId' = nextJobId + 1
       ELSE UNCHANGED <<jobs, nextJobId>>
    /\ UNCHANGED <<now, ticks, executions, nextExecId, analyses, tasks, poll, calc, execLimit, dash>>

-----------------------------------------------------------------------------
(* updateScheduledJob *)

\* "Recalculate next run if schedule parameters changed"
TouchesSchedule(req) ==
    \/ req.frequency # ABSENT
    \/ req.timeOfDay # NoTime
    \/ req.dayOfWeek.k # "undefined"
    \/ req.dayOfMonth.k # "undefined"
    \/ req.timezone # ABSENT

\* The value of next_run the handler computes from the request and the row read.
UpdatedNextRun(req, existingJob, t) ==
    calculateNextRun(
        t,
        IF req.frequency # ABSENT THEN req.frequency ELSE existingJob.frequency,
        IF req.timeOfDay # NoTime THEN req.timeOfDay ELSE existingJob.timeOfDay,
        IF req.dayOfWeek.k # "undefined" THEN req.dayOfWeek ELSE existingJob.dayOfWeek,
        IF req.dayOfMonth.k # "undefined" THEN req.dayOfMonth ELSE existingJob.dayOfMonth,
        IF req.timezone # ABSENT THEN req.timezone ELSE existingJob.timezone)

\* The row after an UPDATE that recalculates next_run when is_active is
\* written too.
UpdatedRowRecalculating(req, existingJob, t) ==
    [existingJob EXCEPT
        !.frequency  = IF req.frequency # ABSENT THEN req.frequency ELSE @,
        !.timeOfDay  = IF req.timeOfDay # NoTime THEN req.timeOfDay ELSE @,
        !.dayOfWeek  = IF req.dayOfWeek.k # "undefined" THEN req.dayOfWeek ELSE @,
        !.dayOfMonth = IF req.dayOfMonth.k # "undefined" THEN req.dayOfMonth ELSE @,
        !.timezone   = IF req.timezone # ABSENT THEN req.timezone ELSE @,
        !.isActive   = IF req.isActive # ABSENT THEN req.isActive = "true" ELSE @,
        !.nextRun    = IF TouchesSchedule(req) \/ req.isActive # ABSENT
                       THEN UpdatedNextRun(req, existingJob, t) ELSE @]

\* The row after the UPDATE built from the request.
UpdatedRow(req, existingJob, t) ==
    [existingJob EXCEPT
        !.frequency  = IF req.frequency # ABSENT THEN req.frequency ELSE @,
        !.timeOfDay  = IF req.timeOfDay # NoTime THEN req.timeOfDay ELSE @,
        !.dayOfWeek  = IF req.dayOfWeek.k # "undefined" THEN req.dayOfWeek ELSE @,
        !.dayOfMonth = IF req.dayOfMonth.k # "undefined" THEN req.dayOfMonth ELSE @,
        !.timezone   = IF req.timezone # ABSENT THEN req.timezone ELSE @,
        !.isActive   = IF req.isActive # ABSENT THEN req.isActive = "true" ELSE @,
        !.nextRun    = IF TouchesSchedule(req)
                       THEN UpdatedNextRun(req, existingJob, t) ELSE @]

\* What the request ends with; "ok" is { success: true }.
UpdateResponse(table, jobId, req, t, dbOk) ==
    IF jobId \notin DOMAIN table THEN "NotFound"
    ELSE IF ~TouchesSchedule(req) /\ req.isActive = ABSENT
    THEN "ok"      \* only updated_at: no statement is sent
    ELSE IF ~dbOk \/ ~CheckDayOfWeek(UpdatedRow(req, table[jobId], t).dayOfWeek)
            \/ ~CheckDayOfMonth(UpdatedRow(req, table[jobId], t).dayOfMonth)
    THEN "Internal"
    ELSE "ok"

updateScheduledJob(jobId, req, dbOk) ==
    /\ jobs' = IF UpdateResponse(jobs, jobId, req, now, dbOk) = "ok"
               THEN [jobs EXCEPT ![jobId] = UpdatedRow(req, @, now)]
               ELSE jobs
    /\ UNCHANGED <<now, ticks, nextJobId, executions, nextExecId, analyses,
                   tasks, poll, calc, execLimit, dash>>

-----------------------------------------------------------------------------
(* deleteScheduledJob: job_executions and historical_analyses reference    *)
(* scheduled_jobs ON DELETE CASCADE.                                       *)

\* deleteScheduledJob on tables whose references do not cascade.
deleteScheduledJobAlone(jobId, dbOk) ==
    /\ IF dbOk
       THEN /\ jobs' = Restrict(jobs, DOMAIN jobs \ {jobId})
            /\ UNCHANGED <<executions, analyses>>
       ELSE UNCHANGED <<jobs, executions, analyses>>
    /\ UNCHANGED <<now, ticks, nextJobId, nextExecId, tasks, poll,
                   calc, execLimit, dash>>

deleteScheduledJob(jobId, dbOk) ==
    /\ IF dbOk
       THEN /\ jobs' = Restrict(jobs, DOMAIN jobs \ {jobId})
            /\ executions' = Restrict(executions,
                   {e \in DOMAIN executions : executions[e].jobId # jobId})
            /\ analyses' = {a \in analyses : a.jobId # jobId}
       ELSE UNCHANGED <<jobs, executions, analyses>>
    /\ UNCHANGED <<now, ticks, nextJobId, nextExecId, tasks, poll,
                   calc, execLimit, dash>>

-----------------------------------------------------------------------------
(* Starting an execution: INSERT INTO job_executions ... 'running' and the *)
(* call of executeScheduledJob, which is not awaited.                      *)

\* Execution ids the model may still hand out, those a running poll will
\* ask for set aside.
Reserved == IF poll.pc = "loop" THEN Len(poll.due) - (poll.i - 1) ELSE 0
FreeExecIds == execLimit - (nextExecId - 1) - Reserved

\* rescheduled records that the execution has written the job's
\* last_run / next_run; it is not a column.
NewExecution(jobId, origin) ==
    [jobId |-> jobId, status |-> "running", origin |-> origin,
     rescheduled |-> FALSE]

NewTask(jobId) == [jobId |-> jobId, pc |-> "getJob", job |-> NULL]

-----------------------------------------------------------------------------
(* triggerJobExecution *)

TriggerResponse(table, jobId, dbOk) ==
    IF jobId \notin DOMAIN table THEN "NotFound"
    ELSE IF ~dbOk THEN "Internal"
    ELSE "ok"

\* triggerJobExecution refusing a job that is not active.
triggerJobExecutionOfActive(jobId, dbOk) ==
    /\ FreeExecIds >= 1
    /\ IF TriggerResponse(jobs, jobId, dbOk) = "ok" /\ jobs[jobId].isActive
       THEN /\ executions' = Extend(executions, nextExecId,
                                    NewExecution(jobId, "manual"))
            /\ tasks' = Extend(tasks, nextExecId, NewTask(jobId))
            /\ nextExecId' = nextExecId + 1
       ELSE UNCHANGED <<executions, nextExecId, tasks>>
    /\ UNCHANGED <<now, ticks, jobs, nextJobId, analyses, poll, calc,
                   execLimit, dash>>

triggerJobExecution(jobId, dbOk) ==
    /\ FreeExecIds >= 1
    /\ IF TriggerResponse(jobs, jobId, dbOk) = "ok"
       THEN /\ executions' = Extend(executions, nextExecId,
                                    NewExecution(jobId, "manual"))
            /\ tasks' = Extend(tasks, nextExecId, NewTask(jobId))
            /\ nextExecId' = nextExecId + 1
       ELSE UNCHANGED <<executions, nextExecId, tasks>>
    /\ UNCHANGED <<now, ticks, jobs, nextJobId, analyses, poll, calc,
                   execLimit, dash>>

-----------------------------------------------------------------------------
(* processScheduledJobs *)

\* LIMIT 10
BatchLimit == 10

\* ORDER BY next_run ASC leaves the order of equal next_run open: the rows
\* come in ascending or in descending id order within a tie.
TieOrders == {"asc", "desc"}

Before(table, order, a, b) ==
    \/ table[a].nextRun < table[b].nextRun
    \/ /\ table[a].nextRun = table[b].nextRun
       /\ IF order = "asc" THEN a < b ELSE a > b

RECURSIVE Sorted(_, _, _)
Sorted(S, table, order) ==
    IF S = {} THEN <<>>
    ELSE LET first == CHOOSE a \in S :
                          \A b \in S \ {a} : Before(table, order, a, b)
         IN  <<first>> \o Sorted(S \ {first}, table, order)

Take(s, n) == IF Len(s) <= n THEN s ELSE SubSeq(s, 1, n)

\* The WHERE clause without is_active = TRUE.
IsDueIgnoringActive(row, t) == row.nextRun <= t

\* WHERE is_active = TRUE AND next_run <= NOW()
IsDue(row, t) == row.isActive /\ row.nextRun <= t

\* SELECT id FROM scheduled_jobs WHERE ... ORDER BY next_run ASC LIMIT 10
DueJobs(table, t, order) ==
    Take(Sorted({j \in DOMAIN table : IsDue(table[j], t)}, table, order),
         BatchLimit)

\* created holds the ids of the execution rows the call has inserted; it is
\* not a variable of the code.
IdlePoll ==
    [pc |-> "idle", due |-> <<>>, i |-> 1, processed |-> 0, created |-> {}]

\* The SELECT of the due jobs; a failure is caught by the outer handler,
\* which returns { processed: 0 }.
PollQuery(order, dbOk) ==
    /\ poll.pc \in {"idle", "returned"}
    /\ execLimit - (nextExecId - 1) >= Len(DueJobs(jobs, now, order))
    /\ poll' = IF dbOk
               THEN [IdlePoll EXCEPT !.pc = "loop",
                                     !.due = DueJobs(jobs, now, order)]
               ELSE [IdlePoll EXCEPT !.pc = "returned"]
    /\ UNCHANGED <<now, ticks, jobs, nextJobId, executions, nextExecId,
                   analyses, tasks, calc, execLimit, dash>>

\* The loop iteration with processed++ outside the try block: a failed
\* INSERT is counted too.
PollStartCountingAll(dbOk) ==
    /\ poll.pc = "loop"
    /\ poll.i <= Len(poll.due)
    /\ LET jobId == poll.due[poll.i]
       IN  IF dbOk /\ jobId \in DOMAIN jobs
           THEN /\ executions' = Extend(executions, nextExecId,
                                        NewExecution(jobId, "poll"))
                /\ tasks' = Extend(tasks, nextExecId, NewTask(jobId))
                /\ nextExecId' = nextExecId + 1
                /\ poll' = [poll EXCEPT !.i = @ + 1, !.processed = @ + 1,
                                        !.created = @ \cup {nextExecId}]
           ELSE /\ poll' = [poll EXCEPT !.i = @ + 1, !.processed = @ + 1]
                /\ UNCHANGED <<executions, nextExecId, tasks>>
    /\ UNCHANGED <<now, ticks, jobs, nextJobId, analyses, calc, execLimit, dash>>

\* The loop iteration advancing the job's next_run when it starts the
\* execution.
PollStartAdvancing(dbOk) ==
    /\ poll.pc = "loop"
    /\ poll.i <= Len(poll.due)
    /\ LET jobId == poll.due[poll.i]
       IN  IF dbOk /\ jobId \in DOMAIN jobs
           THEN /\ executions' = Extend(executions, nextExecId,
                                        NewExecution(jobId, "poll"))
                /\ tasks' = Extend(tasks, nextExecId, NewTask(jobId))
                /\ nextExecId' = nextExecId + 1
                /\ poll' = [poll EXCEPT !.i = @ + 1, !.processed = @ + 1,
                                        !.created = @ \cup {nextExecId}]
                /\ jobs' = [jobs EXCEPT ![jobId].nextRun =
                               calculateNextRun(now, jobs[jobId].frequency,
                                   jobs[jobId].timeOfDay, jobs[jobId].dayOfWeek,
                                   jobs[jobId].dayOfMonth, jobs[jobId].timezone)]
           ELSE /\ poll' = [poll EXCEPT !.i = @ + 1]
                /\ UNCHANGED <<executions, nextExecId, tasks, jobs>>
    /\ UNCHANGED <<now, ticks, nextJobId, analyses, calc, execLimit, dash>>

\* One iteration of the loop: the INSERT (which fails when the job is gone,
\* or when the store fails) and the unawaited executeScheduledJob call.
PollStart(dbOk) ==
    /\ poll.pc = "loop"
    /\ poll.i <= Len(poll.due)
    /\ LET jobId == poll.due[poll.i]
       IN  IF dbOk /\ jobId \in DOMAIN jobs
           THEN /\ executions' = Extend(executions, nextExecId,
                                        NewExecution(jobId, "poll"))
                /\ tasks' = Extend(tasks, nextExecId, NewTask(jobId))
                /\ nextExecId' = nextExecId + 1
                /\ poll' = [poll EXCEPT !.i = @ + 1, !.processed = @ + 1,
                                        !.created = @ \cup {nextExecId}]
           ELSE /\ poll' = [poll EXCEPT !.i = @ + 1]
                /\ UNCHANGED <<executions, nextExecId, tasks>>
    /\ UNCHANGED <<now, ticks, jobs, nextJobId, analyses, calc, execLimit, dash>>

\* return { processed }
PollReturn ==
    /\ poll.pc = "loop"
    /\ poll.i > Len(poll.due)
    /\ poll' = [poll EXCEPT !.pc = "returned", !.due = <<>>, !.i = 1]
    /\ UNCHANGED <<now, ticks, jobs, nextJobId, executions, nextExecId,
                   analyses, tasks, calc, execLimit, dash>>

-----------------------------------------------------------------------------
(* executeScheduledJob, one action per stretch between the points where    *)
(* it touches the tables; ok = FALSE is a throw of one of the awaited      *)
(* calls of the stretch. The frame of a call that has ended is dropped.    *)

\* The columns of the row read at the start that the function uses later.
JobSnapshot(row) ==
    [frequency |-> row.frequency, timeOfDay |-> row.timeOfDay,
     dayOfWeek |-> row.dayOfWeek, dayOfMonth |-> row.dayOfMonth,
     timezone |-> row.timezone, autoAnalyze |-> row.autoAnalyze]

Goto(e, pc) == tasks' = [tasks EXCEPT ![e].pc = pc]
Throw(e) == tasks' = [tasks EXCEPT ![e].pc = "catch", ![e].job = NULL]
End(e) == tasks' = Restrict(tasks, DOMAIN tasks \ {e})

\* UPDATE job_executions SET status = ... WHERE id = e
SetStatus(table, e, status) ==
    IF e \in DOMAIN table THEN [table EXCEPT ![e].status = status] ELSE table

\* SELECT * FROM scheduled_jobs WHERE id = jobId; 'Job not found'
ExecGetJob(e, ok) ==
    /\ e \in DOMAIN tasks /\ tasks[e].pc = "getJob"
    /\ IF ok /\ tasks[e].jobId \in DOMAIN jobs
       THEN tasks' = [tasks EXCEPT ![e].pc = "fetch",
                                   ![e].job = JobSnapshot(jobs[tasks[e].jobId])]
       ELSE Throw(e)
    /\ UNCHANGED <<now, ticks, jobs, nextJobId, executions, nextExecId,
                   analyses, poll, calc, execLimit, dash>>

\* The provider call, fetchData and the UPDATE of file_id / rows_fetched.
ExecFetch(e, ok) ==
    /\ e \in DOMAIN tasks /\ tasks[e].pc = "fetch"
    /\ IF ok
       THEN Goto(e, IF tasks[e].job.autoAnalyze THEN "analyze" ELSE "complete")
       ELSE Throw(e)
    /\ UNCHANGED <<now, ticks, jobs, nextJobId, executions, nextExecId,
                   analyses, poll, calc, execLimit, dash>>

\* dashboard.analyze and the INSERT INTO historical_analyses, whose foreign
\* keys need the job and the execution to exist.
ExecAnalyze(e, ok) ==
    /\ e \in DOMAIN tasks /\ tasks[e].pc = "analyze"
    /\ IF ok /\ tasks[e].jobId \in DOMAIN jobs /\ e \in DOMAIN executions
       THEN /\ analyses' = analyses \cup
                             {[jobId |-> tasks[e].jobId, executionId |-> e]}
            /\ Goto(e, "complete")
       ELSE /\ Throw(e)
            /\ UNCHANGED analyses
    /\ UNCHANGED <<now, ticks, jobs, nextJobId, executions, nextExecId,
                   poll, calc, execLimit, dash>>

\* "Mark execution as completed"
ExecComplete(e, ok) ==
    /\ e \in DOMAIN tasks /\ tasks[e].pc = "complete"
    /\ IF ok
       THEN /\ executions' = SetStatus(executions, e, "completed")
            /\ Goto(e, "reschedule")
       ELSE /\ Throw(e)
            /\ UNCHANGED executions
    /\ UNCHANGED <<now, ticks, jobs, nextJobId, nextExecId, analyses,
                   poll, calc, execLimit, dash>>

\* "Update job's last run and next run", from the row read at the start.
RescheduledRow(row, job, t) ==
    [row EXCEPT !.lastRun = Num(t),
                !.nextRun = calculateNextRun(t, job.frequency, job.timeOfDay,
                                job.dayOfWeek, job.dayOfMonth, job.timezone)]

ExecReschedule(e, ok) ==
    /\ e \in DOMAIN tasks /\ tasks[e].pc = "reschedule"
    /\ IF ok
       THEN /\ jobs' = IF tasks[e].jobId \in DOMAIN jobs
                       THEN [jobs EXCEPT ![tasks[e].jobId] =
                                RescheduledRow(@, tasks[e].job, now)]
                       ELSE jobs
            /\ executions' = IF e \in DOMAIN executions
                             THEN [executions EXCEPT ![e].rescheduled = TRUE]
                             ELSE executions
            /\ End(e)
       ELSE /\ Throw(e)
            /\ UNCHANGED <<jobs, executions>>
    /\ UNCHANGED <<now, ticks, nextJobId, nextExecId, analyses,
                   poll, calc, execLimit, dash>>

\* The catch block: "Mark execution as failed", then rethrow; a throw of
\* the UPDATE itself leaves the row as it is.
ExecCatch(e, ok) ==
    /\ e \in DOMAIN tasks /\ tasks[e].pc = "catch"
    /\ executions' = IF ok THEN SetStatus(executions, e, "failed") ELSE executions
    /\ End(e)
    /\ UNCHANGED <<now, ticks, jobs, nextJobId, nextExecId, analyses,
                   poll, calc, execLimit, dash>>

executeScheduledJob(e) ==
    \E ok \in BOOLEAN :
        \/ ExecGetJob(e, ok)
        \/ ExecFetch(e, ok)
        \/ ExecAnalyze(e, ok)
        \/ ExecComplete(e, ok)
        \/ ExecReschedule(e, ok)
        \/ ExecCatch(e, ok)

-----------------------------------------------------------------------------
(* The clock *)

Tick ==
    /\ ticks < MaxTicks
    /\ now' = now + MinutesPerDay
    /\ ticks' = ticks + 1
    /\ UNCHANGED <<jobs, nextJobId, executions, nextExecId, analyses, tasks,
                   poll, calc, execLimit, dash>>

-----------------------------------------------------------------------------
(* The scheduler service *)

\* Saturday 2024-02-10 10:00
StartInstants == {At(40, 10, 0)}

NoCalc == [pc |-> "none"]
NoDash == [op |-> "none"]

Init ==
    /\ now \in StartInstants
    /\ ticks = 0
    /\ jobs = <<>>
    /\ nextJobId = 1
    /\ executions = <<>>
    /\ nextExecId = 1
    /\ analyses = {}
    /\ tasks = <<>>
    /\ poll = IdlePoll
    /\ calc = NoCalc
    /\ execLimit = MaxExec
    /\ dash = NoDash

Create == \E req \in CreateRequests, dbOk \in BOOLEAN : createScheduledJob(req, dbOk)
Update == \E j \in 1 .. MaxJobs, req \in UpdateRequests, dbOk \in BOOLEAN :
              updateScheduledJob(j, req, dbOk)
Delete == \E j \in 1 .. MaxJobs, dbOk \in BOOLEAN : deleteScheduledJob(j, dbOk)
Trigger == \E j \in 1 .. MaxJobs, dbOk \in BOOLEAN : triggerJobExecution(j, dbOk)
PollQ == \E order \in TieOrders, dbOk \in BOOLEAN : PollQuery(order, dbOk)
PollS == \E dbOk \in BOOLEAN : PollStart(dbOk)
Execute == \E e \in DOMAIN tasks : executeScheduledJob(e)

Next == Create \/ Update \/ Delete \/ Trigger \/ PollQ \/ PollS \/ PollReturn
        \/ Execute \/ Tick

Spec == Init /\ [][Next]_vars

-----------------------------------------------------------------------------
(* The scheduler a day after a daily job was created: the job is due, and  *)
(* polls, manual triggers, executions and a delete interleave.             *)

RunRequests ==
    {req \in CreateRequests : req.frequency = "daily" /\ req.autoAnalyze}

InitRun ==
    /\ now = At(41, 10, 0)
    /\ ticks = 0
    /\ \E req \in RunRequests : jobs = <<CreatedRow(req, At(40, 10, 0))>>
    /\ nextJobId = 2
    /\ executions = <<>>
    /\ nextExecId = 1
    /\ analyses = {}
    /\ tasks = <<>>
    /\ poll = IdlePoll
    /\ calc = NoCalc
    /\ execLimit = MaxRunExec
    /\ dash = NoDash

NextRun == Delete \/ Trigger \/ PollQ \/ PollS \/ PollReturn \/ Execute

SpecRun == InitRun /\ [][NextRun]_vars

-----------------------------------------------------------------------------
(* processScheduledJobs over a table of many jobs: some paused, some not   *)
(* yet due, more due than one poll takes.                                  *)

PollNow == At(41, 10, 0)
PollPatterns == {"asc", "desc", "tie", "future"}

\* next_run of job j of n under a pattern: ascending or descending with
\* the id, all equal to the poll time, or descending with job 1 not yet due.
PollNextRun(pattern, j, n) ==
    CASE pattern = "asc" -> PollNow - (n - j) * 60
      [] pattern = "desc" -> PollNow - j * 60
      [] pattern = "tie" -> PollNow
      [] OTHER -> IF j = 1 THEN PollNow + 60 ELSE PollNow - j * 60

PollRow(active, nextRun) ==
    [CreatedRow(CHOOSE req \in RunRequests : TRUE, PollNow)
        EXCEPT !.isActive = active, !.nextRun = nextRun]

InitPoll ==
    /\ now = PollNow
    /\ ticks = 0
    /\ \E n \in 0 .. MaxPollJobs, pattern \in PollPatterns, paused \in {{}, {2}} :
           jobs = [j \in 1 .. n |->
                      PollRow(j \notin paused, PollNextRun(pattern, j, n))]
    /\ nextJobId = MaxPollJobs + 1
    /\ executions = <<>>
    /\ nextExecId = 1
    /\ analyses = {}
    /\ tasks = <<>>
    /\ poll = IdlePoll
    /\ calc = NoCalc
    /\ execLimit = Len(DueJobs(jobs, now, "asc"))
    /\ dash = NoDash

NextPoll == PollQ \/ PollS \/ PollReturn

SpecPoll == InitPoll /\ [][NextPoll]_vars

-----------------------------------------------------------------------------
(* calculateNextRun on its own *)

CalcNowTimes == {<<8, 0>>, <<9, 0>>, <<10, 0>>}
CalcTimesOfDay == {<<9, 0>>, <<0, 0>>}
CalcTimezones == {"UTC", "America/New_York"}
CalcDayArgs(frequency) ==
    CASE frequency = "weekly" ->
            [dayOfWeek : {Num(d) : d \in 0 .. 6} \cup {NULL, UNDEFINED},
             dayOfMonth : {UNDEFINED}]
      [] frequency = "monthly" ->
            [dayOfWeek : {UNDEFINED},
             dayOfMonth : {Num(d) : d \in 1 .. 31} \cup {NULL, UNDEFINED}]
      [] OTHER -> [dayOfWeek : {UNDEFINED}, dayOfMonth : {UNDEFINED}]

InitCalc ==
    /\ now = 0
    /\ ticks = 0
    /\ jobs = <<>>
    /\ nextJobId = 1
    /\ executions = <<>>
    /\ nextExecId = 1
    /\ analyses = {}
    /\ tasks = <<>>
    /\ poll = IdlePoll
    /\ execLimit = 0
    /\ dash = NoDash
    /\ \E d \in 0 .. MaxCalcDay, hm \in CalcNowTimes, f \in Frequencies,
          tod \in CalcTimesOfDay, tz \in CalcTimezones :
          \E days \in CalcDayArgs(f) :
             calc = [pc |-> "call", t |-> At(d, hm[1], hm[2]), frequency |-> f,
                     timeOfDay |-> tod, dayOfWeek |-> days.dayOfWeek,
                     dayOfMonth |-> days.dayOfMonth, timezone |-> tz,
                     result |-> 0]

CalcCall ==
    /\ calc.pc = "call"
    /\ calc' = [calc EXCEPT
                   !.pc = "done",
                   !.result = calculateNextRun(calc.t, calc.frequency,
                                  calc.timeOfDay, calc.dayOfWeek,
                                  calc.dayOfMonth, calc.timezone)]
    /\ UNCHANGED <<now, ticks, jobs, nextJobId, executions, nextExecId,
                   analyses, tasks, poll, execLimit, dash>>

SpecCalc == InitCalc /\ [][CalcCall]_vars

-----------------------------------------------------------------------------
(* Properties of processScheduledJobs *)

Range(q) == {q[k] : k \in DOMAIN q}
JobOf(e) == executions[e].jobId

\* C1: what a poll has started so far are at most 10 executions, each in
\* status running, each for another job, each for a job that is active and
\* whose nextRun is at or before the poll time, in ascending nextRun order;
\* a due job left out by the limit is not earlier than a started one.
C1_PollStartsDueJobsInOrder ==
    /\ Cardinality(poll.created) <= 10
    /\ \A e \in poll.created :
          /\ e \in DOMAIN executions
          /\ executions[e].status = "running"
          /\ jobs[JobOf(e)].isActive
          /\ jobs[JobOf(e)].nextRun <= now
    /\ \A e1, e2 \in poll.created :
          e1 < e2 => /\ JobOf(e1) # JobOf(e2)
                     /\ jobs[JobOf(e1)].nextRun <= jobs[JobOf(e2)].nextRun
    /\ poll.pc = "loop" =>
          \A j \in DOMAIN jobs \ Range(poll.due) :
              jobs[j].isActive /\ jobs[j].nextRun <= now =>
                  \A e \in poll.created : jobs[JobOf(e)].nextRun <= jobs[j].nextRun

\* A poll has returned after starting 10 jobs of a table that holds a
\* paused job, a job not yet due and a due job beyond the limit.
C1_Witness ==
    /\ poll.pc = "returned"
    /\ Cardinality(poll.created) = 10
    /\ \E j \in DOMAIN jobs : ~jobs[j].isActive /\ jobs[j].nextRun <= now
    /\ \E j \in DOMAIN jobs : jobs[j].isActive /\ jobs[j].nextRun > now
    /\ \E j \in DOMAIN jobs :
          /\ jobs[j].isActive /\ jobs[j].nextRun <= now
          /\ \A e \in poll.created : JobOf(e) # j

\* C7: the processed count of a poll is the number of execution rows the
\* poll has inserted, while it loops and after it has returned, whatever
\* has become of those executions since.
C7_ProcessedCountsCreated ==
    poll.processed = Cardinality(poll.created)

\* A poll has returned and an execution it started is still running.
C7_Witness ==
    /\ poll.pc = "returned"
    /\ poll.processed >= 1
    /\ \E e \in poll.created :
          /\ e \in DOMAIN tasks
          /\ e \in DOMAIN executions
          /\ executions[e].status = "running"
          /\ tasks[e].pc = "getJob"

-----------------------------------------------------------------------------
(* Properties of executeScheduledJob *)

Ended(e) == e \in DOMAIN executions /\ e \notin DOMAIN tasks

\* C2: an execution that has ended as completed or as failed has written
\* the job's lastRun and nextRun.
C2_EndedExecutionRescheduled ==
    \A e \in DOMAIN executions :
        (Ended(e) /\ executions[e].status \in {"completed", "failed"}
            /\ JobOf(e) \in DOMAIN jobs)
        => executions[e].rescheduled

\* C3: the status of an execution changes only from running, and only to
\* completed or failed; a new execution is running.
C3_StatusOnlyLeavesRunning ==
    [][ /\ \A e \in DOMAIN executions \cap DOMAIN executions' :
              executions'[e].status # executions[e].status =>
                  /\ executions[e].status = "running"
                  /\ executions'[e].status \in {"completed", "failed"}
        /\ \A e \in DOMAIN executions' \ DOMAIN executions :
              executions'[e].status = "running" ]_vars

\* C4: an execution whose executeScheduledJob call has ended is no longer
\* running (the call never hangs; once it has ended nothing writes the row).
C4_EndedExecutionNotRunning ==
    \A e \in DOMAIN executions : Ended(e) => executions[e].status # "running"

\* C8: a job's nextRun is written only by the last step of an execution
\* (no request updates the job in this specification), so starting an
\* execution leaves the job due and open to further starts.
C8_NextRunAdvancesOnlyAtEnd ==
    [][ \A j \in DOMAIN jobs \cap DOMAIN jobs' :
            jobs'[j].nextRun # jobs[j].nextRun =>
                \E e \in DOMAIN tasks \ DOMAIN tasks' :
                    /\ tasks[e].jobId = j
                    /\ tasks[e].pc = "reschedule" ]_vars

Overlapping(e1, e2) ==
    /\ e1 # e2
    /\ {e1, e2} \subseteq DOMAIN executions \cap DOMAIN tasks
    /\ JobOf(e1) = JobOf(e2)
    /\ executions[e1].status = "running"
    /\ executions[e2].status = "running"

\* Three executions of one job are running at once: one started by a poll,
\* one by a manual trigger, and one by a later poll.
C8_Witness ==
    \E e1, e2, e3 \in DOMAIN executions :
        /\ e1 < e3
        /\ Overlapping(e1, e2) /\ Overlapping(e2, e3) /\ Overlapping(e1, e3)
        /\ executions[e1].origin = "poll"
        /\ executions[e2].origin = "manual"
        /\ executions[e3].origin = "poll"

-----------------------------------------------------------------------------
(* Properties of calculateNextRun *)

TodayAt(t, timeOfDay) == At(DayOf(t), timeOfDay[1], timeOfDay[2])
Weekday(t) == (DayOf(t) + 1) % 7

\* C9: a daily call answers today at timeOfDay when that is strictly after
\* the call, and tomorrow at timeOfDay otherwise; at 2024-01-01 10:00 with
\* 09:00 it answers 2024-01-02 09:00, at 2024-01-01 08:00 it answers
\* 2024-01-01 09:00.
C9_DailyTodayOrTomorrow ==
    (calc.pc = "done" /\ calc.frequency = "daily") =>
        LET today == TodayAt(calc.t, calc.timeOfDay)
        IN  /\ calc.result = IF today > calc.t THEN today
                                               ELSE today + MinutesPerDay
            /\ (calc.t = At(0, 10, 0) /\ calc.timeOfDay = <<9, 0>>)
                    => calc.result = At(1, 9, 0)
            /\ (calc.t = At(0, 8, 0) /\ calc.timeOfDay = <<9, 0>>)
                    => calc.result = At(0, 9, 0)

\* A daily call made exactly at timeOfDay has answered the next day.
C9_Witness ==
    /\ calc.pc = "done"
    /\ calc.frequency = "daily"
    /\ calc.t = At(0, 9, 0)
    /\ calc.timeOfDay = <<9, 0>>
    /\ calc.result = At(1, 9, 0)

\* C10: a weekly call with dayOfWeek d in 0..6 answers timeOfDay on the day
\* (d - weekday of the call) mod 7 days ahead, and 7 days ahead when that
\* is 0 and timeOfDay is not strictly after the call; on Monday 2024-01-01
\* at 10:00 with d = 1 and 09:00 it answers Monday 2024-01-08 09:00.
C10_WeeklyAdvance ==
    (/\ calc.pc = "done"
     /\ calc.frequency = "weekly"
     /\ calc.dayOfWeek.k = "num"
     /\ calc.dayOfWeek.n \in 0 .. 6) =>
        LET today == TodayAt(calc.t, calc.timeOfDay)
            delta == (calc.dayOfWeek.n - Weekday(calc.t)) % 7
            days  == IF delta = 0 /\ ~(today > calc.t) THEN 7 ELSE delta
        IN  /\ calc.result = today + days * MinutesPerDay
            /\ (calc.t = At(0, 10, 0) /\ calc.timeOfDay = <<9, 0>>
                    /\ calc.dayOfWeek.n = 1)
                    => calc.result = At(7, 9, 0)

\* The weekly call on Monday 2024-01-01 at 10:00 for Mondays at 09:00 has
\* answered the following Monday.
C10_Witness ==
    /\ calc.pc = "done"
    /\ calc.frequency = "weekly"
    /\ calc.t = At(0, 10, 0)
    /\ calc.timeOfDay = <<9, 0>>
    /\ calc.dayOfWeek = Num(1)
    /\ calc.result = At(7, 9, 0)

-----------------------------------------------------------------------------
(* Properties of the stored schedule *)

HasCadence(row) ==
    CASE row.frequency = "weekly"  -> row.dayOfWeek.k = "num"
      [] row.frequency = "monthly" -> row.dayOfMonth.k = "num"
      [] OTHER -> TRUE

\* x is a trigger of the row's cadence: at timeOfDay, on the weekday of a
\* weekly row, on the day of month of a monthly row (or on the last day of
\* a month that has no such day).
OnCadence(row, x) ==
    /\ x = TodayAt(x, row.timeOfDay)
    /\ CASE row.frequency = "weekly"  -> Weekday(x) = row.dayOfWeek.n
          [] row.frequency = "monthly" ->
                \/ getDate(x) = row.dayOfMonth.n
                \/ /\ row.dayOfMonth.n > MonthLen(getMonth(x))
                   /\ getDate(x) = MonthLen(getMonth(x))
          [] OTHER -> TRUE

NextRunWritten(j) ==
    /\ j \in DOMAIN jobs'
    /\ j \in DOMAIN jobs => jobs'[j].nextRun # jobs[j].nextRun

\* C5: every step that writes a job's nextRun writes an instant that is not
\* before the time of the step, that is a trigger of the job's cadence, and
\* that has no trigger of the cadence between the time of the step and it.
C5_NextRunIsNextTrigger ==
    [][ \A j \in DOMAIN jobs' :
            (NextRunWritten(j) /\ HasCadence(jobs'[j])) =>
                LET row == jobs'[j]
                    v   == row.nextRun
                IN  /\ v >= now
                    /\ OnCadence(row, v)
                    /\ \A d \in DayOf(now) .. DayOf(v) :
                          LET x == TodayAt(At(d, 0, 0), row.timeOfDay)
                          IN  (now < x /\ x < v) => ~OnCadence(row, x) ]_vars

\* C6: every stored weekly job has a dayOfWeek in 0..6 and every stored
\* monthly job has a dayOfMonth in 1..31.
C6_StoredDaysInRange ==
    \A j \in DOMAIN jobs :
        /\ jobs[j].frequency = "weekly" =>
              (jobs[j].dayOfWeek.k = "num" /\ jobs[j].dayOfWeek.n \in 0 .. 6)
        /\ jobs[j].frequency = "monthly" =>
              (jobs[j].dayOfMonth.k = "num" /\ jobs[j].dayOfMonth.n \in 1 .. 31)

-----------------------------------------------------------------------------
(* Strings of the dashboard service: a text is a TLA+ string, read one     *)
(* character at a time.                                                    *)

Char(s, i) == SubSeq(s, i, i)
Quote == "\""
Whitespace == {" ", "\t", "\r", "\n"}

RECURSIVE trimStart(_)
trimStart(s) ==
    IF Len(s) > 0 /\ Char(s, 1) \in Whitespace
    THEN trimStart(SubSeq(s, 2, Len(s))) ELSE s

RECURSIVE trimEnd(_)
trimEnd(s) ==
    IF Len(s) > 0 /\ Char(s, Len(s)) \in Whitespace
    THEN trimEnd(SubSeq(s, 1, Len(s) - 1)) ELSE s

\* String.prototype.trim
trim(s) == trimEnd(trimStart(s))

UpperCase == "ABCDEFGHIJKLMNOPQRSTUVWXYZ"
LowerCase == "abcdefghijklmnopqrstuvwxyz"

LowerChar(c) ==
    IF \E k \in 1 .. Len(UpperCase) : Char(UpperCase, k) = c
    THEN Char(LowerCase, CHOOSE k \in 1 .. Len(UpperCase) : Char(UpperCase, k) = c)
    ELSE c

\* String.prototype.toLowerCase
RECURSIVE toLowerCase(_)
toLowerCase(s) ==
    IF Len(s) = 0 THEN s
    ELSE LowerChar(Char(s, 1)) \o toLowerCase(SubSeq(s, 2, Len(s)))

\* String.prototype.includes
includes(s, sub) ==
    \E k \in 1 .. (Len(s) - Len(sub) + 1) : SubSeq(s, k, k + Len(sub) - 1) = sub

\* The first position of character c in s at or after position from, or 0.
IndexFrom(s, c, from) ==
    IF \E k \in from .. Len(s) : Char(s, k) = c
    THEN CHOOSE k \in from .. Len(s) :
             Char(s, k) = c /\ \A m \in from .. (k - 1) : Char(s, m) # c
    ELSE 0

\* String.prototype.split(c) for a one-character separator
RECURSIVE split(_, _)
split(s, c) ==
    LET k == IndexFrom(s, c, 1)
    IN  IF k = 0 THEN <<s>>
        ELSE <<SubSeq(s, 1, k - 1)>> \o split(SubSeq(s, k + 1, Len(s)), c)

\* A line as split(/\r?\n/) leaves it: without the \r that ended it.
DropCR(line) ==
    IF Len(line) > 0 /\ Char(line, Len(line)) = "\r"
    THEN SubSeq(line, 1, Len(line) - 1) ELSE line

\* content.split(/\r?\n/)
splitLines(content) ==
    LET parts == split(content, "\n")
    IN  [k \in 1 .. Len(parts) |->
            IF k < Len(parts) THEN DropCR(parts[k]) ELSE parts[k]]

\* Array.prototype.filter(line => line.trim().length > 0)
nonBlankLines(lines) == SelectSeq(lines, LAMBDA line : Len(trim(line)) > 0)

\* Array.prototype.join(sep)
RECURSIVE join(_, _)
join(parts, sep) ==
    IF Len(parts) = 0 THEN ""
    ELSE IF Len(parts) = 1 THEN parts[1]
    ELSE parts[1] \o sep \o join(Tail(parts), sep)

-----------------------------------------------------------------------------
(* analyze.ts: parseCSVLine and parseCSVContent. A parse result is         *)
(* [ok, error, headers, rows]; error is the message of the thrown Error.   *)

RECURSIVE ScanLine(_, _, _, _, _)
ScanLine(line, i, current, inQuotes, result) ==
    IF i > Len(line) THEN Append(result, trim(current))
    ELSE LET char == Char(line, i)
         IN  IF char = Quote
             THEN IF inQuotes /\ i + 1 <= Len(line) /\ Char(line, i + 1) = Quote
                  THEN ScanLine(line, i + 2, current \o Quote, inQuotes, result)
                  ELSE ScanLine(line, i + 1, current, ~inQuotes, result)
             ELSE IF char = "," /\ ~inQuotes
                  THEN ScanLine(line, i + 1, "", inQuotes,
                                Append(result, trim(current)))
                  ELSE ScanLine(line, i + 1, current \o char, inQuotes, result)

parseCSVLine(line) == ScanLine(line, 1, "", FALSE, <<>>)

ParseError(message) ==
    [ok |-> FALSE, error |-> message, headers |-> <<>>, rows |-> <<>>]
ParseOk(headers, rows) ==
    [ok |-> TRUE, error |-> "", headers |-> headers, rows |-> rows]

\* headerSet.has(header.toLowerCase()) for a later header
HasDuplicates(headers) ==
    \E a, b \in 1 .. Len(headers) :
        a < b /\ toLowerCase(headers[a]) = toLowerCase(headers[b])

\* parseCSVContent with every data line taken as it comes, whatever its
\* number of fields.
parseCSVContentRagged(csvContent) ==
    IF Len(trim(csvContent)) = 0 THEN ParseError("CSV content is empty")
    ELSE LET lines   == nonBlankLines(splitLines(csvContent))
             headers == parseCSVLine(lines[1])
             rows    == [k \in 1 .. (Len(lines) - 1) |-> parseCSVLine(lines[k + 1])]
         IN  IF HasDuplicates(headers)
             THEN ParseError("Duplicate column headers found")
             ELSE ParseOk(headers, rows)

parseCSVContent(csvContent) ==
    IF Len(trim(csvContent)) = 0 THEN ParseError("CSV content is empty")
    ELSE LET lines   == nonBlankLines(splitLines(csvContent))
             headers == parseCSVLine(lines[1])
             rows    == [k \in 1 .. (Len(lines) - 1) |-> parseCSVLine(lines[k + 1])]
         IN  IF Len(lines) = 0 THEN ParseError("No valid lines found in CSV")
             ELSE IF Len(headers) = 0
             THEN ParseError("No headers found in first line")
             ELSE IF HasDuplicates(headers)
             THEN ParseError("Duplicate column headers found")
             ELSE IF \E k \in 1 .. Len(rows) : Len(rows[k]) # Len(headers)
             THEN ParseError("Error parsing row")
             ELSE ParseOk(headers, rows)

-----------------------------------------------------------------------------
(* upload.ts: validateCSVContent; the result is "ok" or the message of the *)
(* thrown Error.                                                           *)

\* What an undecodable byte becomes in fileBuffer.toString('utf-8') (U+FFFD).
ReplacementChar == "?"

\* lines.slice(1, Math.min(6, lines.length))
CheckedDataLines == 5
\* content.length < 50
MinContentLength == 50

validateCSVContent(content) ==
    LET lines     == nonBlankLines(splitLines(content))
        headers   == [k \in 1 .. Len(split(lines[1], ",")) |->
                         trim(split(lines[1], ",")[k])]
        dataLines == SubSeq(lines, 2, IF Len(lines) < CheckedDataLines + 1
                                      THEN Len(lines) ELSE CheckedDataLines + 1)
    IN  IF includes(content, ReplacementChar)
        THEN "File contains invalid characters"
        ELSE IF Len(lines) = 0 THEN "CSV file appears to be empty"
        ELSE IF Len(lines) = 1 THEN "CSV file contains only headers"
        ELSE IF Len(trim(lines[1])) = 0 THEN "CSV file is missing a header row"
        ELSE IF Len(headers) < 2 THEN "CSV file must contain at least 2 columns"
        ELSE IF \E k \in 1 .. Len(headers) : Len(headers[k]) = 0
        THEN "CSV file contains empty column headers"
        ELSE IF \E k \in 1 .. Len(dataLines) :
                    Len(split(dataLines[k], ",")) # Len(headers)
        THEN "Row has a different number of columns"
        ELSE IF Len(lines) < 3
        THEN "CSV file should contain at least 2 data rows"
        ELSE IF Len(content) < MinContentLength
        THEN "CSV file appears to be too small"
        ELSE "ok"

-----------------------------------------------------------------------------
(* integration-manager.ts: convertToCSV *)

\* cell.replace(/"/g, '""')
RECURSIVE escapeQuotes(_)
escapeQuotes(cell) ==
    IF Len(cell) = 0 THEN cell
    ELSE (IF Char(cell, 1) = Quote THEN Quote \o Quote ELSE Char(cell, 1))
         \o escapeQuotes(SubSeq(cell, 2, Len(cell)))

convertToCSV(headers, rows) ==
    LET headerRow == join([k \in 1 .. Len(headers) |->
                              Quote \o headers[k] \o Quote], ",")
        csvRow(row) == join([k \in 1 .. Len(row) |->
                                Quote \o escapeQuotes(row[k]) \o Quote], ",")
    IN  join(<<headerRow>> \o [r \in 1 .. Len(rows) |-> csvRow(rows[r])], "\n")

-----------------------------------------------------------------------------
(* analyze.ts: the parse stage of analyze and its validation of the parsed *)
(* table. The result is the code of the APIError thrown, or "ok".          *)

AnalyzeParseCode(parseResult) ==
    IF ~parseResult.ok THEN "CSV_PARSE_ERROR"
    ELSE IF Len(parseResult.headers) = 0 THEN "NO_COLUMNS"
    ELSE IF Len(parseResult.rows) = 0 THEN "NO_DATA_ROWS"
    ELSE IF Len(parseResult.rows) < 2 THEN "INSUFFICIENT_DATA"
    ELSE "ok"

-----------------------------------------------------------------------------
(* One file through the upload validation, the parse of analyze, and the   *)
(* CSV writer of the integrations followed by a second parse.              *)

MaxCsvLines == 3

\* Lines a file is made of; quotes are balanced within every line.
CsvLines ==
    {"campaign_name,clicks_total",
     "\"campaign, name\",clicks_total",
     "\"the \"\"best\"\" name\",clicks_total",
     "campaign_name",
     "campaign_name,",
     "Clicks,clicks",
     "spring sale 2024,120",
     "\"sale, summer 2024\",340",
     "\"say \"\"hi\"\" now\",5",
     "winter sale 2024",
     "   ",
     "a,b",
     "1,2,3"}

LineEndings == {"\n", "\r\n"}

CsvContents ==
    {join(lines, sep) :
        lines \in UNION {[1 .. n -> CsvLines] : n \in 0 .. MaxCsvLines},
        sep \in LineEndings}

InitCsv ==
    /\ now = 0
    /\ ticks = 0
    /\ jobs = <<>>
    /\ nextJobId = 1
    /\ executions = <<>>
    /\ nextExecId = 1
    /\ analyses = {}
    /\ tasks = <<>>
    /\ poll = IdlePoll
    /\ calc = NoCalc
    /\ execLimit = 0
    /\ \E content \in CsvContents :
          dash = [op |-> "csv", pc |-> "upload", content |-> content,
                  upload |-> "", parsed |-> ParseError(""), analyze |-> "",
                  exported |-> "", reparsed |-> ParseError("")]

NotDash == <<now, ticks, jobs, nextJobId, executions, nextExecId, analyses,
             tasks, poll, calc, execLimit>>

\* upload: validateCSVContent(fileBuffer)
CsvUpload ==
    /\ dash.op = "csv" /\ dash.pc = "upload"
    /\ dash' = [dash EXCEPT !.pc = "parse",
                            !.upload = validateCSVContent(dash.content)]
    /\ UNCHANGED NotDash

\* analyze: parseCSVContent(csvContent) and the validation of its result
CsvParse ==
    /\ dash.op = "csv" /\ dash.pc = "parse"
    /\ LET parsed == parseCSVContent(dash.content)
       IN  dash' = [dash EXCEPT !.pc = IF parsed.ok THEN "export" ELSE "done",
                                !.parsed = parsed,
                                !.analyze = AnalyzeParseCode(parsed)]
    /\ UNCHANGED NotDash

\* fetchData: convertToCSV(data.headers, data.rows); analyze parses the
\* stored text
CsvExport ==
    /\ dash.op = "csv" /\ dash.pc = "export"
    /\ LET exported == convertToCSV(dash.parsed.headers, dash.parsed.rows)
       IN  dash' = [dash EXCEPT !.pc = "done",
                                !.exported = exported,
                                !.reparsed = parseCSVContent(exported)]
    /\ UNCHANGED NotDash

NextCsv == CsvUpload \/ CsvParse \/ CsvExport

SpecCsv == InitCsv /\ [][NextCsv]_vars

-----------------------------------------------------------------------------
(* Properties of the CSV functions *)

CsvParsed == dash.op = "csv" /\ dash.pc \in {"export", "done"}
DataLines(content) == Tail(nonBlankLines(splitLines(content)))

\* C16: a table parseCSVContent returns has rows of exactly as many fields
\* as there are headers, and a text with a data line of another number of
\* fields is not parsed at all.
C16_RowsMatchHeaders ==
    CsvParsed =>
        /\ dash.parsed.ok =>
              \A r \in 1 .. Len(dash.parsed.rows) :
                  Len(dash.parsed.rows[r]) = Len(dash.parsed.headers)
        /\ (/\ Len(trim(dash.content)) > 0
            /\ \E k \in 1 .. Len(DataLines(dash.content)) :
                  Len(parseCSVLine(DataLines(dash.content)[k]))
                      # Len(parseCSVLine(nonBlankLines(splitLines(dash.content))[1])))
           => (~dash.parsed.ok /\ dash.parsed.rows = <<>>)

\* A file of three lines, one with a comma inside a quoted field, has been
\* parsed into two rows of two fields.
C16_Witness ==
    /\ CsvParsed
    /\ dash.parsed.ok
    /\ Len(dash.parsed.headers) = 2
    /\ Len(dash.parsed.rows) = 2
    /\ \E r \in 1 .. 2 : includes(dash.parsed.rows[r][1], ",")

\* C17: no parsed table has fewer than 2 columns or a blank header.
C17_HeadersWellFormed ==
    (CsvParsed /\ dash.parsed.ok) =>
        /\ Len(dash.parsed.headers) >= 2
        /\ \A k \in 1 .. Len(dash.parsed.headers) : dash.parsed.headers[k] # ""

\* C18: upload accepts a file exactly when the parse stage of analyze
\* accepts it.
C18_UploadAgreesWithAnalyze ==
    CsvParsed => (dash.upload = "ok" <=> dash.analyze = "ok")

\* C19: writing a parsed table with convertToCSV and parsing the text
\* again gives the same headers and rows.
C19_RoundTrip ==
    (dash.op = "csv" /\ dash.pc = "done" /\ dash.parsed.ok) =>
        /\ dash.reparsed.ok
        /\ dash.reparsed.headers = dash.parsed.headers
        /\ dash.reparsed.rows = dash.parsed.rows

-----------------------------------------------------------------------------
(* backend/dashboard/analyze.ts: column roles and filters *)

\* What parseFloat and getTime give for a text that is no number or date.
NaN == [k |-> "nan", n |-> 0]

DigitChars == <<"0", "1", "2", "3", "4", "5", "6", "7", "8", "9">>
IsDigit(c) == \E d \in 1 .. 10 : DigitChars[d] = c
DigitValue(c) == (CHOOSE d \in 1 .. 10 : DigitChars[d] = c) - 1

\* The longest prefix of digits of s from position i on, as a number.
RECURSIVE DigitsFrom(_, _, _)
DigitsFrom(s, i, acc) ==
    IF i <= Len(s) /\ IsDigit(Char(s, i))
    THEN DigitsFrom(s, i + 1, acc * 10 + DigitValue(Char(s, i)))
    ELSE acc

\* value.replace(/[$,%]/g, '')
RECURSIVE cleanNumber(_)
cleanNumber(value) ==
    IF value = "" THEN ""
    ELSE IF Head(value) \in {"$", ",", "%"}
         THEN cleanNumber(Tail(value))
         ELSE Head(value) \o cleanNumber(Tail(value))

\* parseFloat on the cells of the model, which carry no fraction and no
\* exponent: leading white space, an optional sign, then the digits; NaN when
\* no digit follows.
parseFloat(text) ==
    LET s == trimStart(text)
        negative == s # "" /\ Char(s, 1) = "-"
        signed == s # "" /\ Char(s, 1) \in {"-", "+"}
        from == IF signed THEN 2 ELSE 1
    IN  IF from <= Len(s) /\ IsDigit(Char(s, from))
        THEN Num((IF negative THEN 0 - 1 ELSE 1) * DigitsFrom(s, from, 0))
        ELSE NaN

parseNumericValue(value) ==
    IF value = "" THEN 0
    ELSE LET num == parseFloat(cleanNumber(value))
         IN  IF num = NaN THEN 0 ELSE num.n

\* new Date(text).getTime() on the dates of the model, which are written
\* YYYY-MM-DD: NaN for any other text.  Instants are only compared, so the
\* value is the number of the day in a calendar of 31-day months.
AllDigits(s) == \A i \in 1 .. Len(s) : IsDigit(Char(s, i))
DateTime(text) ==
    IF /\ Len(text) = 10
       /\ Char(text, 5) = "-" /\ Char(text, 8) = "-"
       /\ AllDigits(SubSeq(text, 1, 4))
       /\ AllDigits(SubSeq(text, 6, 7))
       /\ AllDigits(SubSeq(text, 9, 10))
    THEN LET y == DigitsFrom(text, 1, 0)
             m == DigitsFrom(text, 6, 0)
             d == DigitsFrom(text, 9, 0)
         IN  IF m >= 1 /\ m <= 12 /\ d >= 1 /\ d <= 31
             THEN Num((y * 12 + m - 1) * 31 + d)
             ELSE NaN
    ELSE NaN

dateKeywords ==
    <<"date", "time", "day", "month", "year", "created", "updated",
      "timestamp">>
numericKeywords ==
    <<"count", "total", "sum", "amount", "value", "price", "cost", "revenue",
      "sales", "clicks", "impressions", "views", "sessions", "users",
      "conversion", "rate", "ctr", "cpc", "cpm", "roas", "roi", "bounce",
      "duration", "pages", "goal">>
categoricalKeywords ==
    <<"category", "type", "source", "medium", "campaign", "channel", "device",
      "browser", "country", "region", "city", "gender", "age", "segment",
      "status", "group", "class", "tag", "label">>

HasKeyword(header, keywords) ==
    LET lower == toLowerCase(header)
    IN  \E k \in DOMAIN keywords : includes(lower, keywords[k])

\* The columns are given by their positions: headers.indexOf(columns[0]) is
\* the first of them, the headers of a parsed table being distinct.
SampleSizeNumeric == 10
SampleSizeCategorical == 20
Smaller(a, b) == IF a < b THEN a ELSE b

findDateColumns(headers) ==
    {c \in DOMAIN headers : HasKeyword(headers[c], dateKeywords)}

findNumericColumns(headers, rows) ==
    LET sampleSize == Smaller(SampleSizeNumeric, Len(rows))
        numericCount(c) ==
            Cardinality({r \in 1 .. sampleSize :
                /\ c <= Len(rows[r])
                /\ rows[r][c] # ""
                /\ parseFloat(cleanNumber(rows[r][c])) # NaN})
    IN  {c \in DOMAIN headers :
            \/ HasKeyword(headers[c], numericKeywords)
            \/ numericCount(c) * 10 > sampleSize * 7}

findCategoricalColumns(headers, rows) ==
    LET sampleSize == Smaller(SampleSizeCategorical, Len(rows))
        uniqueValues(c) == {rows[r][c] : r \in 1 .. sampleSize}
    IN  {c \in DOMAIN headers :
            \/ HasKeyword(headers[c], categoricalKeywords)
            \/ /\ Cardinality(uniqueValues(c)) > 1
               /\ Cardinality(uniqueValues(c)) * 10 < sampleSize * 8}

First(columns) == CHOOSE c \in columns : \A other \in columns : c <= other

\* FilterOptions: startDate and endDate are "" when absent (an absent and an
\* empty bound are both falsy), selectedCategories is a set that is empty when
\* absent, minValue and maxValue are UNDEFINED or Num(n).
NoFilters == [present |-> FALSE]
Filters(startDate, endDate, selectedCategories, minValue, maxValue) ==
    [present |-> TRUE, startDate |-> startDate, endDate |-> endDate,
     selectedCategories |-> selectedCategories,
     minValue |-> minValue, maxValue |-> maxValue]

\* The row filters of the three stages, for the column the stage found.
keepByDate(dateColIndex, filters, row) ==
    LET dateValue == row[dateColIndex]
        rowDate == DateTime(dateValue)
        startDate == DateTime(filters.startDate)
        endDate == DateTime(filters.endDate)
    IN  IF dateValue = "" \/ rowDate = NaN THEN TRUE
        ELSE IF /\ filters.startDate # "" /\ startDate # NaN
                /\ rowDate.n < startDate.n THEN FALSE
        ELSE IF /\ filters.endDate # "" /\ endDate # NaN
                /\ rowDate.n > endDate.n THEN FALSE
        ELSE TRUE

keepByCategory(categoryColIndex, filters, row) ==
    LET categoryValue == row[categoryColIndex]
    IN  categoryValue = "" \/ categoryValue \in filters.selectedCategories

keepByValue(primaryMetricIndex, filters, row) ==
    LET value == parseNumericValue(row[primaryMetricIndex])
    IN  IF filters.minValue # UNDEFINED /\ value < filters.minValue.n
        THEN FALSE
        ELSE IF filters.maxValue # UNDEFINED /\ value > filters.maxValue.n
        THEN FALSE
        ELSE TRUE

\* The three stages of applyFilters, each a filter of what the one before
\* kept; the columns are looked up in the rows as they were given.
afterDateFilter(headers, rows, filters) ==
    LET dateColumns == findDateColumns(headers)
        dateColIndex == First(dateColumns)
    IN  IF (filters.startDate # "" \/ filters.endDate # "")
           /\ dateColumns # {}
        THEN SelectSeq(rows,
                 LAMBDA row : keepByDate(dateColIndex, filters, row))
        ELSE rows

\* afterCategoryFilter with the category filter applied to the rows as given
\* instead of to the rows the date filter kept.
afterCategoryFilterOfAllRows(headers, rows, filters) ==
    LET categoricalColumns == findCategoricalColumns(headers, rows)
        categoryColIndex == First(categoricalColumns)
    IN  IF filters.selectedCategories # {} /\ categoricalColumns # {}
        THEN SelectSeq(rows,
                 LAMBDA row : keepByCategory(categoryColIndex, filters, row))
        ELSE afterDateFilter(headers, rows, filters)

afterCategoryFilter(headers, rows, filters) ==
    LET filteredRows == afterDateFilter(headers, rows, filters)
        categoricalColumns == findCategoricalColumns(headers, rows)
        categoryColIndex == First(categoricalColumns)
    IN  IF filters.selectedCategories # {} /\ categoricalColumns # {}
        THEN SelectSeq(filteredRows,
                 LAMBDA row : keepByCategory(categoryColIndex, filters, row))
        ELSE filteredRows

afterValueFilter(headers, rows, filters) ==
    LET filteredRows == afterCategoryFilter(headers, rows, filters)
        numericColumns == findNumericColumns(headers, rows)
        primaryMetricIndex == First(numericColumns)
    IN  IF (filters.minValue # UNDEFINED \/ filters.maxValue # UNDEFINED)
           /\ numericColumns # {}
        THEN SelectSeq(filteredRows,
                 LAMBDA row : keepByValue(primaryMetricIndex, filters, row))
        ELSE filteredRows

applyFilters(headers, rows, filters) ==
    IF ~filters.present THEN rows
    ELSE afterValueFilter(headers, rows, filters)

-----------------------------------------------------------------------------
(* SpecFilter: applyFilters on small tables under two filter specifications *)
(* and under the specification that carries the constraints of both.       *)

MaxFilterRows == 3

FilterHeaders ==
    {<<"date", "channel", "clicks">>, <<"when", "who", "n">>}

FilterRowPool ==
    <<  <<"2024-01-10", "email", "120">>,
        <<"2024-02-10", "social", "$1,250">>,
        <<"2024-03-05", "email", "80">>,
        <<"n/a", "", "abc">>,
        <<"", "social", "900">>  >>

\* The tables: 2 to MaxFilterRows rows of the pool, in the order of the pool.
FilterTables ==
    LET picks == UNION {[1 .. n -> DOMAIN FilterRowPool] :
                            n \in 2 .. MaxFilterRows}
        ordered == {f \in picks :
                      \A i \in DOMAIN f : i = 1 \/ f[i - 1] <= f[i]}
    IN  {[i \in DOMAIN f |-> FilterRowPool[f[i]]] : f \in ordered}

FilterSpecsA ==
    {NoFilters, Filters("", "2024-02-28", {}, UNDEFINED, Num(200))} \cup
    {Filters(s, "", c, lo, UNDEFINED) :
        s \in {"", "2024-02-01"},
        c \in {{}, {"email", "social"}},
        lo \in {UNDEFINED, Num(100)}}

FilterSpecsB ==
    {NoFilters,
     Filters("", "2024-03-01", {}, UNDEFINED, Num(1000)),
     Filters("", "", {}, Num(90), UNDEFINED),
     Filters("2024-01-15", "", {}, UNDEFINED, UNDEFINED),
     Filters("", "", {"email"}, UNDEFINED, UNDEFINED),
     Filters("", "", {"display"}, UNDEFINED, UNDEFINED),
     Filters("2024-01-15", "", {"email"}, Num(90), UNDEFINED)}

\* The bound of two bounds of one kind: the later start, the earlier end, the
\* larger minimum, the smaller maximum; an absent bound gives way.
LaterDate(a, b) ==
    IF a = "" THEN b ELSE IF b = "" THEN a
    ELSE IF DateTime(a).n >= DateTime(b).n THEN a ELSE b
EarlierDate(a, b) ==
    IF a = "" THEN b ELSE IF b = "" THEN a
    ELSE IF DateTime(a).n <= DateTime(b).n THEN a ELSE b
LargerValue(a, b) ==
    IF a = UNDEFINED THEN b ELSE IF b = UNDEFINED THEN a
    ELSE IF a.n >= b.n THEN a ELSE b
SmallerValue(a, b) ==
    IF a = UNDEFINED THEN b ELSE IF b = UNDEFINED THEN a
    ELSE IF a.n <= b.n THEN a ELSE b
BothCategories(a, b) ==
    IF a = {} THEN b ELSE IF b = {} THEN a ELSE a \cap b

\* Two specifications have a conjunction among the FilterOptions unless both
\* select categories and select no category in common: an empty
\* selectedCategories is a specification without category filter.
Conjoinable(a, b) ==
    \/ ~a.present \/ ~b.present
    \/ a.selectedCategories = {} \/ b.selectedCategories = {}
    \/ a.selectedCategories \cap b.selectedCategories # {}

Conjunction(a, b) ==
    IF ~a.present THEN b
    ELSE IF ~b.present THEN a
    ELSE Filters(LaterDate(a.startDate, b.startDate),
                 EarlierDate(a.endDate, b.endDate),
                 BothCategories(a.selectedCategories, b.selectedCategories),
                 LargerValue(a.minValue, b.minValue),
                 SmallerValue(a.maxValue, b.maxValue))

\* The frame holds, for specification a and for the conjunction, the rows
\* kept before and after the stage of applyFilters that ran last.
InitFilter ==
    /\ now = 0 /\ ticks = 0
    /\ jobs = <<>> /\ nextJobId = 1
    /\ executions = <<>> /\ nextExecId = 1
    /\ analyses = {} /\ tasks = <<>>
    /\ poll = IdlePoll /\ calc = NoCalc
    /\ execLimit = 0
    /\ \E headers \in FilterHeaders, rows \in FilterTables,
          a \in FilterSpecsA, b \in FilterSpecsB :
          dash = [op |-> "filter", pc |-> "date",
                  headers |-> headers, rows |-> rows, a |-> a, b |-> b,
                  both |-> IF Conjoinable(a, b) THEN Conjunction(a, b)
                           ELSE a,
                  beforeA |-> rows, keptA |-> rows,
                  beforeBoth |-> rows, keptBoth |-> rows,
                  keptThen |-> rows, keptTwice |-> rows]

Staged(stage(_, _, _), filters) ==
    IF ~filters.present THEN dash.rows
    ELSE stage(dash.headers, dash.rows, filters)

AfterStage(next, stage(_, _, _)) ==
    [dash EXCEPT !.pc = next,
        !.beforeA = dash.keptA,
        !.keptA = Staged(stage, dash.a),
        !.beforeBoth = dash.keptBoth,
        !.keptBoth = Staged(stage, dash.both)]

FilterByDate ==
    /\ dash.op = "filter" /\ dash.pc = "date"
    /\ dash' = AfterStage("category", afterDateFilter)
    /\ UNCHANGED NotDash

FilterByCategory ==
    /\ dash.op = "filter" /\ dash.pc = "category"
    /\ dash' = AfterStage("value", afterCategoryFilter)
    /\ UNCHANGED NotDash

FilterByValue ==
    /\ dash.op = "filter" /\ dash.pc = "value"
    /\ dash' = AfterStage("again", afterValueFilter)
    /\ UNCHANGED NotDash

\* The rows that specification a kept, filtered under specification b.
FilterAgain ==
    /\ dash.op = "filter" /\ dash.pc = "again"
    /\ dash' = [dash EXCEPT !.pc = "done",
                   !.keptThen = applyFilters(dash.headers, dash.keptA, dash.b)]
    /\ UNCHANGED NotDash

\* The rows that specification a kept, filtered under specification a again.
FilterTwice ==
    /\ dash.op = "filter" /\ dash.pc = "done"
    /\ dash' = [dash EXCEPT !.pc = "twice",
                   !.keptTwice = applyFilters(dash.headers, dash.keptA, dash.a)]
    /\ UNCHANGED NotDash

NextFilter ==
    \/ FilterByDate
    \/ FilterByCategory
    \/ FilterByValue
    \/ FilterAgain
    \/ FilterTwice

SpecFilter == InitFilter /\ [][NextFilter]_vars

\* p holds rows of q in the order of q.
RECURSIVE IsSubsequence(_, _)
IsSubsequence(p, q) ==
    IF p = <<>> THEN TRUE
    ELSE IF q = <<>> THEN FALSE
    ELSE IF Head(p) = Head(q) THEN IsSubsequence(Tail(p), Tail(q))
    ELSE IsSubsequence(p, Tail(q))

FilterDone == dash.op = "filter" /\ dash.pc = "done"

\* C20: every stage of applyFilters keeps rows of what the stage before kept,
\* and the rows kept under the conjunction of two filter specifications, and
\* under the second applied to what the first kept, are rows kept under the
\* first one alone.
C20_FiltersOnlyNarrow ==
    dash.op = "filter" =>
        /\ IsSubsequence(dash.keptA, dash.beforeA)
        /\ IsSubsequence(dash.keptBoth, dash.beforeBoth)
        /\ dash.pc \in {"again", "done"} /\ Conjoinable(dash.a, dash.b) =>
              IsSubsequence(dash.keptBoth, dash.keptA)
        /\ dash.pc \in {"done", "twice"} =>
              IsSubsequence(dash.keptThen, dash.keptA)

C20_Witness ==
    /\ FilterDone
    /\ dash.a.present /\ dash.b.present /\ Conjoinable(dash.a, dash.b)
    /\ dash.a.startDate # "" /\ dash.a.selectedCategories # {}
    /\ dash.b.minValue # UNDEFINED
    /\ Len(dash.keptA) < Len(dash.rows)
    /\ Len(dash.keptBoth) < Len(dash.keptA)
    /\ Len(dash.keptBoth) > 0
    /\ dash.keptThen = dash.keptBoth

-----------------------------------------------------------------------------
(* JSON.parse on the replies of the model: objects, arrays, strings        *)
(* without escapes, integers, true, false and null.                        *)

JNull == [t |-> "null"]
JUndefined == [t |-> "undefined"]
JBool(b) == [t |-> "bool", b |-> b]
JNum(n) == [t |-> "num", n |-> n]
JStr(text) == [t |-> "str", s |-> text]
JArr(items) == [t |-> "arr", items |-> items]
JObj(keys, vals) == [t |-> "obj", keys |-> keys, vals |-> vals]

CharAt(s, i) == IF i >= 1 /\ i <= Len(s) THEN Char(s, i) ELSE ""

RECURSIVE SkipWs(_, _)
SkipWs(s, i) ==
    IF CharAt(s, i) \in {" ", "\n", "\r", "\t"} THEN SkipWs(s, i + 1) ELSE i

JFail == [ok |-> FALSE, v |-> JNull, i |-> 0]
JOk(v, i) == [ok |-> TRUE, v |-> v, i |-> i]

\* A string starts at the quote at i and ends at the next quote.
ParseString(s, i) ==
    LET close == IndexFrom(s, Quote, i + 1)
    IN  IF /\ CharAt(s, i) = Quote /\ close > 0
           /\ ~includes(SubSeq(s, i, close), "\\")
        THEN JOk(JStr(SubSeq(s, i + 1, close - 1)), close + 1)
        ELSE JFail

RECURSIVE EndOfDigits(_, _)
EndOfDigits(s, i) ==
    IF IsDigit(CharAt(s, i)) THEN EndOfDigits(s, i + 1) ELSE i

ParseNumber(s, i) ==
    LET from == IF CharAt(s, i) = "-" THEN i + 1 ELSE i
        sign == IF CharAt(s, i) = "-" THEN 0 - 1 ELSE 1
    IN  IF IsDigit(CharAt(s, from))
        THEN JOk(JNum(sign * DigitsFrom(s, from, 0)), EndOfDigits(s, from))
        ELSE JFail

ParseLiteral(s, i, word, v) ==
    IF i + Len(word) - 1 <= Len(s) /\ SubSeq(s, i, i + Len(word) - 1) = word
    THEN JOk(v, i + Len(word))
    ELSE JFail

RECURSIVE ParseValue(_, _)
RECURSIVE ParseItems(_, _, _)
RECURSIVE ParseMembers(_, _, _, _)

ParseValue(s, start) ==
    LET i == SkipWs(s, start)
        c == CharAt(s, i)
        inner == SkipWs(s, i + 1)
    IN  CASE c = "{" -> IF CharAt(s, inner) = "}"
                        THEN JOk(JObj(<<>>, <<>>), inner + 1)
                        ELSE ParseMembers(s, inner, <<>>, <<>>)
          [] c = "[" -> IF CharAt(s, inner) = "]"
                        THEN JOk(JArr(<<>>), inner + 1)
                        ELSE ParseItems(s, inner, <<>>)
          [] c = Quote -> ParseString(s, i)
          [] c = "n" -> ParseLiteral(s, i, "null", JNull)
          [] c = "t" -> ParseLiteral(s, i, "true", JBool(TRUE))
          [] c = "f" -> ParseLiteral(s, i, "false", JBool(FALSE))
          [] OTHER -> ParseNumber(s, i)

ParseItems(s, i, items) ==
    LET item == ParseValue(s, i)
        after == SkipWs(s, item.i)
    IN  IF ~item.ok THEN JFail
        ELSE IF CharAt(s, after) = ","
             THEN ParseItems(s, after + 1, Append(items, item.v))
        ELSE IF CharAt(s, after) = "]"
             THEN JOk(JArr(Append(items, item.v)), after + 1)
        ELSE JFail

ParseMembers(s, i, keys, vals) ==
    LET key == ParseString(s, SkipWs(s, i))
        colon == SkipWs(s, key.i)
        val == ParseValue(s, colon + 1)
        after == SkipWs(s, val.i)
    IN  IF ~key.ok \/ CharAt(s, colon) # ":" THEN JFail
        ELSE IF ~val.ok THEN JFail
        ELSE IF CharAt(s, after) = ","
             THEN ParseMembers(s, after + 1, Append(keys, key.v.s),
                               Append(vals, val.v))
        ELSE IF CharAt(s, after) = "}"
             THEN JOk(JObj(Append(keys, key.v.s), Append(vals, val.v)),
                      after + 1)
        ELSE JFail

\* JSON.parse(text): the value, or the failure that JSON.parse throws.
JSONParse(text) ==
    LET value == ParseValue(text, 1)
    IN  IF value.ok /\ SkipWs(text, value.i) = Len(text) + 1
        THEN value
        ELSE JFail

\* value[key]: the last member of that name of an object, undefined for a
\* missing member and for the names the model reads on other values.
Field(value, key) ==
    IF value.t = "obj" /\ \E k \in DOMAIN value.keys : value.keys[k] = key
    THEN value.vals[CHOOSE k \in DOMAIN value.keys :
                        /\ value.keys[k] = key
                        /\ \A later \in DOMAIN value.keys :
                               value.keys[later] = key => later <= k]
    ELSE JUndefined

Falsy(value) ==
    \/ value.t \in {"null", "undefined"}
    \/ value.t = "bool" /\ ~value.b
    \/ value.t = "num" /\ value.n = 0
    \/ value.t = "str" /\ value.s = ""

\* typeof value === 'object'
TypeofObject(value) == value.t \in {"obj", "arr", "null"}

-----------------------------------------------------------------------------
(* backend/dashboard/analyze.ts: the reply of the text-generation service  *)

\* The match of /\{[\s\S]*\}/: from the first "{" to the last "}" after it;
\* "" when there is none (a match is never empty).
RECURSIVE LastIndexOf(_, _, _)
LastIndexOf(s, c, i) ==
    IF i < 1 THEN 0
    ELSE IF Char(s, i) = c THEN i
    ELSE LastIndexOf(s, c, i - 1)

jsonMatch(aiResponse) ==
    LET open == IndexFrom(aiResponse, "{", 1)
        close == LastIndexOf(aiResponse, "}", Len(aiResponse))
    IN  IF open > 0 /\ close > open THEN SubSeq(aiResponse, open, close)
        ELSE ""

validImpacts == {"high", "medium", "low"}

IsString(value) == value.t = "str"
StringOr(value, default) == IF IsString(value) THEN value.s ELSE default
LevelOr(value, default) ==
    IF IsString(value) /\ value.s \in validImpacts THEN value.s ELSE default

\* validateInsight and validateRecommendation: null for an entry that is
\* falsy or no object.
Dropped == [kept |-> FALSE]

validateInsight(insight) ==
    IF Falsy(insight) \/ ~TypeofObject(insight) THEN Dropped
    ELSE [kept |-> TRUE,
          category |-> StringOr(Field(insight, "category"), "General"),
          title |-> StringOr(Field(insight, "title"), "Insight"),
          description |-> StringOr(Field(insight, "description"),
                                   "No description available"),
          impact |-> LevelOr(Field(insight, "impact"), "medium"),
          metrics |-> LET metrics == Field(insight, "metrics")
                      IN  IF ~Falsy(metrics) /\ TypeofObject(metrics)
                          THEN metrics ELSE JUndefined]

validateRecommendation(recommendation) ==
    IF Falsy(recommendation) \/ ~TypeofObject(recommendation) THEN Dropped
    ELSE [kept |-> TRUE,
          title |-> StringOr(Field(recommendation, "title"),
                             "Recommendation"),
          description |-> StringOr(Field(recommendation, "description"),
                                   "No description available"),
          priority |-> LevelOr(Field(recommendation, "priority"), "medium"),
          effort |-> LevelOr(Field(recommendation, "effort"), "medium"),
          expectedImpact |-> StringOr(Field(recommendation, "expectedImpact"),
                                      "Positive impact expected")]

\* Array.isArray(list) ? list.map(validate).filter(Boolean) : []
Validated(list, validate(_)) ==
    IF list.t = "arr"
    THEN SelectSeq([k \in DOMAIN list.items |-> validate(list.items[k])],
                   LAMBDA entry : entry.kept)
    ELSE <<>>

\* The numbers of a column, a cell that is empty or no number counting 0.
ColumnValues(rows, c) ==
    [r \in DOMAIN rows |-> parseNumericValue(rows[r][c])]

RECURSIVE SumOf(_)
SumOf(values) ==
    IF values = <<>> THEN 0 ELSE Head(values) + SumOf(Tail(values))

NonZero(values) == SelectSeq(values, LAMBDA v : v # 0)

metricWords ==
    <<"session", "user", "revenue", "conversion", "click", "impression",
      "view", "cost", "ctr", "rate">>

\* The numeric members of the keyMetrics of the reply, by name.
AIMetricNames(aiMetrics) ==
    CASE aiMetrics.t = "obj" ->
            {aiMetrics.keys[k] : k \in {m \in DOMAIN aiMetrics.keys :
                Field(aiMetrics, aiMetrics.keys[m]).t = "num"}}
      [] aiMetrics.t = "arr" ->
            {ToString(k - 1) : k \in {m \in DOMAIN aiMetrics.items :
                aiMetrics.items[m].t = "num"}}
      [] OTHER -> {}

AIMetric(aiMetrics, name) ==
    IF aiMetrics.t = "obj" THEN Field(aiMetrics, name).n
    ELSE aiMetrics.items[CHOOSE k \in DOMAIN aiMetrics.items :
                             ToString(k - 1) = name].n

Thrown(message) == [ok |-> FALSE, message |-> message]

parseAIResponse(aiResponse, headers, rows) ==
    LET match == jsonMatch(aiResponse)
        parsed == JSONParse(match)
        metricColumns ==
            {c \in DOMAIN headers :
                /\ HasKeyword(headers[c], metricWords)
                /\ NonZero(ColumnValues(rows, c)) # <<>>}
        aiMetrics == IF Falsy(Field(parsed.v, "keyMetrics"))
                     THEN JObj(<<>>, <<>>)
                     ELSE Field(parsed.v, "keyMetrics")
        names == {headers[c] : c \in metricColumns}
                     \cup AIMetricNames(aiMetrics)
    IN  IF aiResponse = "" \/ trim(aiResponse) = ""
        THEN Thrown("Empty AI response")
        ELSE IF match = ""
        THEN Thrown("No valid JSON found in AI response")
        ELSE IF ~parsed.ok
        THEN Thrown("Invalid JSON in AI response")
        ELSE IF Falsy(parsed.v) \/ ~TypeofObject(parsed.v)
        THEN Thrown("AI response is not a valid object")
        ELSE [ok |-> TRUE,
              insights |->
                  Validated(Field(parsed.v, "insights"), validateInsight),
              recommendations |->
                  Validated(Field(parsed.v, "recommendations"),
                            validateRecommendation),
              summary |-> StringOr(Field(parsed.v, "summary"),
                                   "Analysis completed successfully."),
              keyMetrics |->
                  [name \in names |->
                      IF name \in AIMetricNames(aiMetrics)
                      THEN AIMetric(aiMetrics, name)
                      ELSE SumOf(ColumnValues(rows, First(
                               {c \in metricColumns : headers[c] = name})))]]

createFallbackAnalysis(headers, rows, reportType) ==
    LET summed ==
            {c \in DOMAIN headers :
                LET values == NonZero(ColumnValues(rows, c))
                IN  Len(values) > 0 /\ Len(values) * 2 > Len(rows)}
        names == {"total_rows", "total_columns"}
                     \cup {headers[c] : c \in summed}
    IN  [ok |-> TRUE,
         insights |->
             <<[kept |-> TRUE, category |-> "Data Overview",
                title |-> "Data Successfully Processed",
                description |->
                    "Your " \o reportType \o " report contains "
                        \o ToString(Len(rows)) \o " rows of data with "
                        \o ToString(Len(headers))
                        \o " columns. The data includes metrics such as: "
                        \o join(SubSeq(headers, 1, Smaller(5, Len(headers))),
                                ", ")
                        \o (IF Len(headers) > 5 THEN ", and more" ELSE "")
                        \o ".",
                impact |-> "medium",
                metrics |-> JObj(<<"total_rows", "total_columns">>,
                                 <<JNum(Len(rows)), JNum(Len(headers))>>)]>>,
         recommendations |->
             <<[kept |-> TRUE, title |-> "Review Data Quality",
                description |->
                    "Ensure all important metrics are being tracked "
                        \o "consistently across your reporting periods. "
                        \o "Look for any missing data points or anomalies.",
                priority |-> "medium", effort |-> "low",
                expectedImpact |->
                    "Improved data reliability and more accurate insights"],
               [kept |-> TRUE, title |-> "Set Up Regular Analysis",
                description |->
                    "Consider setting up automated reporting to track "
                        \o "these metrics on a regular basis for better "
                        \o "trend analysis.",
                priority |-> "low", effort |-> "medium",
                expectedImpact |->
                    "Better understanding of performance trends over time"]>>,
         summary |->
             "Analysis completed for your " \o reportType
                 \o " report. The dataset contains " \o ToString(Len(rows))
                 \o " rows and " \o ToString(Len(headers))
                 \o " columns of data. While AI analysis was not available,"
                 \o " the data has been successfully processed and basic"
                 \o " metrics have been calculated.",
         keyMetrics |->
             [name \in names |->
                 IF \E c \in summed : headers[c] = name
                 THEN SumOf(ColumnValues(rows,
                          First({c \in summed : headers[c] = name})))
                 ELSE IF name = "total_rows" THEN Len(rows)
                 ELSE Len(headers)]]

-----------------------------------------------------------------------------
(* backend/dashboard/analyze.ts: the analyze endpoint *)

\* An APIError: its kind, and the details object when it was given one.
APIErrorWith(kind, code, message, suggestion) ==
    [kind |-> kind, details |-> TRUE, code |-> code, message |-> message,
     suggestion |-> suggestion]
APIErrorBare(kind) ==
    [kind |-> kind, details |-> FALSE, code |-> "", message |-> "",
     suggestion |-> ""]

Pending == [status |-> "pending"]
Failed(error) == [status |-> "error", error |-> error]
Returned(result) == [status |-> "ok", result |-> result]

\* What the request to the text-generation service comes to: no key
\* configured, the 30 s abort, a failed fetch, a status that is not ok, a
\* body without choices[0].message, or a message whose content is a text
\* ("" for a missing content).
OpenAIStatuses ==
    {<<401, "Unauthorized">>, <<429, "Too Many Requests">>,
     <<500, "Internal Server Error">>, <<400, "Bad Request">>,
     <<408, "Request Timeout">>}

callOpenAI(outcome) ==
    CASE outcome.kind = "noKey" ->
            Thrown("OpenAI API key is not configured")
      [] outcome.kind = "abort" -> Thrown("OpenAI request timeout")
      [] outcome.kind = "fetch" -> Thrown("fetch failed")
      [] outcome.kind = "status" ->
            IF outcome.status = 401 THEN Thrown("Invalid OpenAI API key")
            ELSE IF outcome.status = 429
            THEN Thrown("OpenAI rate limit exceeded")
            ELSE IF outcome.status >= 500
            THEN Thrown("OpenAI service temporarily unavailable")
            ELSE Thrown("OpenAI API error: " \o ToString(outcome.status)
                            \o " " \o outcome.statusText)
      [] outcome.kind = "noChoices" ->
            Thrown("Invalid response format from OpenAI")
      [] OTHER -> [ok |-> TRUE, content |-> outcome.content]

\* The catch around callOpenAI with every failure reported as AI_ERROR.
AIFailureUnclassified(message) ==
    APIErrorWith("Internal", "AI_ERROR", "Unable to generate AI analysis",
        "Please try again. If the problem persists, contact support")

\* The catch around callOpenAI, by the message of the error.
AIFailure(message) ==
    IF includes(message, "API key")
    THEN APIErrorWith("Internal", "AI_CONFIG_ERROR",
             "AI analysis service is not properly configured",
             "Please contact support to resolve this issue")
    ELSE IF includes(message, "rate limit") \/ includes(message, "quota")
    THEN APIErrorWith("ResourceExhausted", "AI_RATE_LIMIT",
             "AI analysis service is currently at capacity",
             "Please try again in a few minutes")
    ELSE IF includes(message, "timeout")
    THEN APIErrorWith("DeadlineExceeded", "AI_TIMEOUT",
             "AI analysis took too long to complete",
             "Please try again with a smaller dataset")
    ELSE APIErrorWith("Internal", "AI_ERROR",
             "Unable to generate AI analysis",
             "Please try again. If the problem persists, contact support")

\* The reply parsed without the catch: the Error of parseAIResponse reaches
\* the outer catch of analyze.
AnalysisResultUncaught(aiResponse, headers, filteredRows, reportType) ==
    LET parsed == parseAIResponse(aiResponse, headers, filteredRows)
    IN  IF parsed.ok THEN Returned(parsed)
        ELSE Failed(APIErrorWith("Internal", "UNEXPECTED_ERROR",
                 parsed.message,
                 "Please try again. If the problem persists, contact support"))

\* The reply parsed, with the fallback when parseAIResponse throws.
AnalysisResult(aiResponse, headers, filteredRows, reportType) ==
    LET parsed == parseAIResponse(aiResponse, headers, filteredRows)
    IN  IF parsed.ok THEN Returned(parsed)
        ELSE Returned(createFallbackAnalysis(headers, filteredRows,
                                             reportType))

validReportTypes == {"ga4", "ads", "general"}
validAnalysisTypes == {"insights", "recommendations", "summary"}

\* The frame of analyze after the filters, without the check for an empty
\* result.
FilteredUnchecked(frame, headers, rows) ==
    LET filteredRows == applyFilters(headers, rows, frame.req.filters)
    IN  [frame EXCEPT !.pc = "ai", !.headers = headers, !.rows = rows,
            !.filteredRows = filteredRows,
            !.chartCalls = frame.chartCalls + 1]

\* The frame of analyze after the filters: the error for an empty result, or
\* the data summary and the charts made and the call of the service next.
Filtered(frame, headers, rows) ==
    LET filteredRows == applyFilters(headers, rows, frame.req.filters)
    IN  IF Len(filteredRows) = 0
        THEN [frame EXCEPT !.pc = "done", !.headers = headers,
                 !.rows = rows, !.filteredRows = filteredRows,
                 !.response = Failed(APIErrorWith("InvalidArgument",
                     "NO_FILTERED_DATA",
                     "The applied filters resulted in no matching data",
                     "Please adjust your filter criteria to include more data"))]
        ELSE [frame EXCEPT !.pc = "ai", !.headers = headers, !.rows = rows,
                 !.filteredRows = filteredRows,
                 !.chartCalls = frame.chartCalls + 1]

AnalyzeFail(frame, error) ==
    [frame EXCEPT !.pc = "done", !.response = Failed(error)]

\* analyze up to the listing of the bucket: the checks of the request.
AnalyzeRequest ==
    /\ dash.op = "analyze" /\ dash.pc = "request"
    /\ dash' =
        IF dash.req.fileId = "" \/ dash.req.reportType = ""
               \/ dash.req.analysisType = ""
        THEN AnalyzeFail(dash, APIErrorWith("InvalidArgument",
                 "MISSING_PARAMETERS",
                 "File ID, report type, and analysis type are required",
                 "Please ensure all analysis parameters are provided"))
        ELSE IF dash.req.reportType \notin validReportTypes
        THEN AnalyzeFail(dash, APIErrorWith("InvalidArgument",
                 "INVALID_REPORT_TYPE",
                 "Report type '" \o dash.req.reportType
                     \o "' is not supported",
                 "Please use one of: ga4, ads, general"))
        ELSE IF dash.req.analysisType \notin validAnalysisTypes
        THEN AnalyzeFail(dash, APIErrorWith("InvalidArgument",
                 "INVALID_ANALYSIS_TYPE",
                 "Analysis type '" \o dash.req.analysisType
                     \o "' is not supported",
                 "Please use one of: insights, recommendations, summary"))
        ELSE [dash EXCEPT !.pc = "list"]
    /\ UNCHANGED NotDash

\* reportsBucket.list: it fails, finds no file, or finds one.
AnalyzeList ==
    /\ dash.op = "analyze" /\ dash.pc = "list"
    /\ \E listed \in {"fails", "none", "found"} :
          dash' =
            CASE listed = "fails" ->
                    AnalyzeFail(dash, APIErrorWith("Internal",
                        "STORAGE_ACCESS_ERROR",
                        "Unable to access file storage",
                        "Please try again. If the problem persists, contact support"))
              [] listed = "none" ->
                    AnalyzeFail(dash, APIErrorWith("NotFound",
                        "FILE_NOT_FOUND",
                        "No file found with ID: " \o dash.req.fileId,
                        "Please upload a new file or check that the file ID is correct"))
              [] OTHER -> [dash EXCEPT !.pc = "download"]
    /\ UNCHANGED NotDash

AnalyzeFiles ==
    {"date,channel,clicks\n2024-01-10,email,120\n2024-02-10,social,\"$1,250\"\n2024-03-05,email,80",
     "date,channel,clicks\n2024-01-10,email,120\n2024-02-10,social",
     "date,channel,clicks\n2024-01-10,email,120",
     "date,channel,clicks",
     ""}

\* reportsBucket.download, then the file parsed, checked and filtered, the
\* data summary and the charts made, up to the call of the service.
AnalyzeDownload ==
    /\ dash.op = "analyze" /\ dash.pc = "download"
    /\ \/ dash' = AnalyzeFail(dash, APIErrorWith("Internal",
                      "DOWNLOAD_ERROR",
                      "Unable to download the file from storage",
                      "The file may be corrupted. Please try uploading again"))
       \/ \E csvContent \in AnalyzeFiles :
             LET parseResult == parseCSVContent(csvContent)
                 code == AnalyzeParseCode(parseResult)
             IN  dash' =
                   CASE code = "CSV_PARSE_ERROR" ->
                           AnalyzeFail(dash, APIErrorWith("InvalidArgument",
                               code, parseResult.error,
                               "Please ensure your file is a valid CSV with proper formatting"))
                     [] code = "NO_COLUMNS" ->
                           AnalyzeFail(dash, APIErrorWith("InvalidArgument",
                               code,
                               "The file does not contain any recognizable data columns",
                               "Please ensure your CSV file has a header row with column names"))
                     [] code = "NO_DATA_ROWS" ->
                           AnalyzeFail(dash, APIErrorWith("InvalidArgument",
                               code, "The file does not contain any data rows",
                               "Please ensure your CSV file contains data below the header row"))
                     [] code = "INSUFFICIENT_DATA" ->
                           AnalyzeFail(dash, APIErrorWith("InvalidArgument",
                               code,
                               "At least 2 data rows are required for meaningful analysis",
                               "Please upload a file with more data points"))
                     [] OTHER ->
                           Filtered(dash, parseResult.headers,
                                    parseResult.rows)
    /\ UNCHANGED NotDash

\* The entries of the lists of a reply, as JSON texts.
ReplyEntries ==
    <<"{\"category\":\"Channel\",\"title\":\"Email leads\",\"description\":\"Email has the most clicks\",\"impact\":\"high\",\"priority\":\"high\",\"effort\":\"low\"}",
      "{\"title\":\"Check tracking\",\"impact\":\"urgent\",\"priority\":1}",
      "null",
      "\"raise the budget\"">>

MaxReplyEntries == 2

ReplyLists ==
    LET picks == UNION {[1 .. n -> DOMAIN ReplyEntries] :
                            n \in 0 .. MaxReplyEntries}
    IN  {join([k \in DOMAIN f |-> ReplyEntries[f[k]]], ",") : f \in picks}

Replies ==
    {"", "   ", "I could not analyse this data.", "{\"insights\":[",
     "Here you are: {\"summary\":\"Clicks are steady\",\"insights\":\"none\",\"keyMetrics\":{\"roi\":3}} Regards"}
    \cup {"{\"" \o field \o "\":[" \o list \o "]}" :
             field \in {"insights", "recommendations"}, list \in ReplyLists}

OpenAIOutcomes ==
    {[kind |-> "noKey"], [kind |-> "abort"], [kind |-> "fetch"],
     [kind |-> "noChoices"]}
    \cup {[kind |-> "status", status |-> st[1], statusText |-> st[2]] :
             st \in OpenAIStatuses}
    \cup {[kind |-> "content", content |-> reply] : reply \in Replies}

\* callOpenAI, its failure reported or its reply parsed, and the return.
AnalyzeCallOpenAI ==
    /\ dash.op = "analyze" /\ dash.pc = "ai"
    /\ \E outcome \in OpenAIOutcomes :
          LET aiResponse == callOpenAI(outcome)
              called == [dash EXCEPT !.pc = "done",
                            !.aiCalls = dash.aiCalls + 1, !.ai = outcome]
          IN  dash' =
                IF ~aiResponse.ok
                THEN [called EXCEPT
                         !.response = Failed(AIFailure(aiResponse.message))]
                ELSE [called EXCEPT
                         !.response = AnalysisResult(aiResponse.content,
                             dash.headers, dash.filteredRows,
                             dash.req.reportType)]
    /\ UNCHANGED NotDash

AnalyzeRequests ==
    [fileId : {"", "1730000000000-abc"},
     reportType : {"", "ga4", "weekly"},
     analysisType : {"insights", "forecast"},
     filters : {NoFilters,
                Filters("", "", {"email"}, UNDEFINED, UNDEFINED),
                Filters("2025-01-01", "", {}, UNDEFINED, UNDEFINED)}]

InitAnalyze ==
    /\ now = 0 /\ ticks = 0
    /\ jobs = <<>> /\ nextJobId = 1
    /\ executions = <<>> /\ nextExecId = 1
    /\ analyses = {} /\ tasks = <<>>
    /\ poll = IdlePoll /\ calc = NoCalc
    /\ execLimit = 0
    /\ \E req \in AnalyzeRequests :
          dash = [op |-> "analyze", pc |-> "request", req |-> req,
                  headers |-> <<>>, rows |-> <<>>, filteredRows |-> <<>>,
                  chartCalls |-> 0, aiCalls |-> 0, ai |-> [kind |-> "none"],
                  response |-> Pending]

NextAnalyze ==
    \/ AnalyzeRequest
    \/ AnalyzeList
    \/ AnalyzeDownload
    \/ AnalyzeCallOpenAI

SpecAnalyze == InitAnalyze /\ [][NextAnalyze]_vars

-----------------------------------------------------------------------------
(* backend/integrations: getGAData (google-analytics.ts) and               *)
(* getFacebookData (facebook-ads), the two data endpoints.                 *)

MaxFetchRows == 2

\* The rows of a provider's report: up to MaxFetchRows rows of width cells
\* drawn from values.
ReportRows(width, values) ==
    UNION {[1 .. n -> [1 .. width -> values]] : n \in 0 .. MaxFetchRows}

\* What the request to the provider comes to: a failed fetch, a status that
\* is not ok, or a body.
FetchStatuses == {401, 403, 429, 500}

FetchRequests ==
    [dimensions : {<<"date">>},
     metrics : {<<"sessions">>, <<"sessions", "users">>}]

\* v.value || fallback
ValueOr(value, fallback) == IF value = "" THEN fallback ELSE value

\* getGAData from the answer of runReport on.
GAData(req, outcome) ==
    IF outcome.kind = "fetch"
    THEN Failed(APIErrorWith("Internal", "GA_DATA_ERROR",
             "Unable to retrieve analytics data",
             "Please check your parameters and try again"))
    ELSE IF outcome.kind = "status"
    THEN IF outcome.status = 401
         THEN Failed(APIErrorWith("Unauthenticated", "TOKEN_EXPIRED",
                  "Your Google Analytics access token has expired",
                  "Please re-authorize your Google Analytics account"))
         ELSE IF outcome.status = 403
         THEN Failed(APIErrorWith("PermissionDenied",
                  "INSUFFICIENT_PERMISSIONS",
                  "You don't have permission to access this Google Analytics property",
                  "Please ensure you have read access to the selected property"))
         ELSE Failed(APIErrorBare("Internal"))
    ELSE LET dims == Len(req.dimensions)
             rows == [r \in DOMAIN outcome.rows |->
                         [c \in DOMAIN outcome.rows[r] |->
                             IF c <= dims
                             THEN ValueOr(outcome.rows[r][c], "")
                             ELSE ValueOr(outcome.rows[r][c], "0")]]
         IN  Returned([headers |-> req.dimensions \o req.metrics,
                       rows |-> rows, totalRows |-> Len(rows)])

\* value ? value.toString() : ''
FieldText(value) ==
    IF Falsy(value) THEN ""
    ELSE IF value.t = "num" THEN ToString(value.n)
    ELSE value.s

\* getFacebookData from the answer of the insights request on.
FacebookData(req, outcome) ==
    IF outcome.kind = "fetch"
    THEN Failed(APIErrorWith("Internal", "FACEBOOK_DATA_ERROR",
             "Unable to retrieve ads data",
             "Please check your parameters and try again"))
    ELSE IF outcome.kind = "status"
    THEN IF outcome.status = 401
         THEN Failed(APIErrorWith("Unauthenticated", "TOKEN_EXPIRED",
                  "Your Facebook access token has expired",
                  "Please re-authorize your Facebook account"))
         ELSE IF outcome.status = 403
         THEN Failed(APIErrorWith("PermissionDenied",
                  "INSUFFICIENT_PERMISSIONS",
                  "You don't have permission to access this Facebook Ads account",
                  "Please ensure you have read access to the selected account"))
         ELSE Failed(APIErrorBare("Internal"))
    ELSE IF outcome.kind = "error"
    THEN Failed(APIErrorWith("Internal", "FACEBOOK_API_ERROR",
             ValueOr(outcome.message, "Failed to fetch data"),
             "Please check your parameters and try again"))
    ELSE LET rows == [r \in DOMAIN outcome.rows |->
                         [c \in DOMAIN outcome.rows[r] |->
                             FieldText(outcome.rows[r][c])]]
         IN  Returned([headers |-> req.dimensions \o req.metrics,
                       rows |-> rows, totalRows |-> Len(rows)])

FetchFailures ==
    {[kind |-> "fetch"]}
    \cup {[kind |-> "status", status |-> st] : st \in FetchStatuses}

GAOutcomes(req) ==
    FetchFailures
    \cup {[kind |-> "body", rows |-> rows] :
             rows \in ReportRows(Len(req.dimensions) + Len(req.metrics),
                                 {"", "12"})}

FacebookOutcomes(req) ==
    FetchFailures
    \cup {[kind |-> "error", message |-> m] :
             m \in {"", "Unsupported get request"}}
    \cup {[kind |-> "body", rows |-> rows] :
             rows \in ReportRows(Len(req.dimensions) + Len(req.metrics),
                                 {JUndefined, JStr("2024-01-10"), JNum(0),
                                  JNum(12)})}

InitFetch ==
    /\ now = 0 /\ ticks = 0
    /\ jobs = <<>> /\ nextJobId = 1
    /\ executions = <<>> /\ nextExecId = 1
    /\ analyses = {} /\ tasks = <<>>
    /\ poll = IdlePoll /\ calc = NoCalc
    /\ execLimit = 0
    /\ \E op \in {"getGAData", "getFacebookData"}, req \in FetchRequests :
          dash = [op |-> op, pc |-> "fetch", req |-> req,
                  response |-> Pending]

GetGAData ==
    /\ dash.op = "getGAData" /\ dash.pc = "fetch"
    /\ \E outcome \in GAOutcomes(dash.req) :
          dash' = [dash EXCEPT !.pc = "done",
                      !.response = GAData(dash.req, outcome)]
    /\ UNCHANGED NotDash

GetFacebookData ==
    /\ dash.op = "getFacebookData" /\ dash.pc = "fetch"
    /\ \E outcome \in FacebookOutcomes(dash.req) :
          dash' = [dash EXCEPT !.pc = "done",
                      !.response = FacebookData(dash.req, outcome)]
    /\ UNCHANGED NotDash

NextFetch ==
    \/ GetGAData
    \/ GetFacebookData

SpecFetch == InitFetch /\ [][NextFetch]_vars

-----------------------------------------------------------------------------
(* Properties of analyze and of the data endpoints *)

AnalyzeDone == dash.op = "analyze" /\ dash.pc = "done"
GotReply == AnalyzeDone /\ dash.ai.kind = "content"

\* The reply is empty, holds no {...} block, or its block is no JSON.
ReplyUnparseable(reply) ==
    \/ trim(reply) = ""
    \/ jsonMatch(reply) = ""
    \/ ~JSONParse(jsonMatch(reply)).ok

AIFailed(kinds, statuses) ==
    /\ AnalyzeDone
    /\ \/ dash.ai.kind \in kinds
       \/ dash.ai.kind = "status" /\ dash.ai.status \in statuses

C12_OneCallTypedFailure ==
    dash.op = "analyze" =>
        /\ dash.aiCalls <= 1
        /\ (AnalyzeDone /\ dash.ai.kind # "none") => dash.aiCalls = 1
        /\ AIFailed({"abort"}, {}) =>
              /\ dash.response.status = "error"
              /\ dash.response.error.kind = "DeadlineExceeded"
        /\ AIFailed({}, {429}) =>
              /\ dash.response.status = "error"
              /\ dash.response.error.kind = "ResourceExhausted"
        /\ AIFailed({"noKey"}, {401}) =>
              /\ dash.response.status = "error"
              /\ dash.response.error.code = "AI_CONFIG_ERROR"

C12_Witness ==
    /\ AnalyzeDone
    /\ dash.ai.kind = "abort"
    /\ dash.aiCalls = 1
    /\ dash.response.status = "error"
    /\ dash.response.error.code = "AI_TIMEOUT"

\* C13: when the filters leave no row of a parsed table, analyze ends with
\* InvalidArgument NO_FILTERED_DATA and has made no chart and no call of the
\* text-generation service.
FilteredToNothing ==
    /\ dash.op = "analyze" /\ dash.pc \in {"ai", "done"}
    /\ dash.rows # <<>> /\ dash.filteredRows = <<>>

C13_NoRowsNoChartsNoCall ==
    FilteredToNothing =>
        /\ dash.pc = "done"
        /\ dash.response.status = "error"
        /\ dash.response.error.kind = "InvalidArgument"
        /\ dash.response.error.code = "NO_FILTERED_DATA"
        /\ dash.chartCalls = 0
        /\ dash.aiCalls = 0

C13_Witness ==
    /\ AnalyzeDone
    /\ Len(dash.rows) = 3 /\ dash.filteredRows = <<>>
    /\ dash.req.filters.present
    /\ dash.response.status = "error"
    /\ dash.response.error.code = "NO_FILTERED_DATA"

\* C14: for a parsed reply whose insights (recommendations) are an array of
\* n entries, the result holds n insights (recommendations).
C14_EveryEntryKept ==
    (GotReply /\ ~ReplyUnparseable(dash.ai.content)) =>
        LET parsed == JSONParse(jsonMatch(dash.ai.content)).v
            insights == Field(parsed, "insights")
            recommendations == Field(parsed, "recommendations")
        IN  /\ dash.response.status = "ok"
            /\ insights.t = "arr" =>
                  Len(dash.response.result.insights) = Len(insights.items)
            /\ recommendations.t = "arr" =>
                  Len(dash.response.result.recommendations)
                      = Len(recommendations.items)

\* C15: every error an endpoint returns carries a code, a message and a
\* suggestion.
EndpointFailed ==
    /\ dash.op \in {"analyze", "getGAData", "getFacebookData"}
    /\ dash.pc = "done" /\ dash.response.status = "error"

C15_ErrorsCarryDetails ==
    EndpointFailed =>
        /\ dash.response.error.details
        /\ dash.response.error.code # ""
        /\ dash.response.error.message # ""
        /\ dash.response.error.suggestion # ""

-----------------------------------------------------------------------------
(* Properties of applyFilters applied to its own result *)

\* C21: applyFilters under a filter specification, applied to the rows it
\* returned under that specification, returns those rows again.
C21_RefilterIsFixedPoint ==
    (dash.op = "filter" /\ dash.pc = "twice") => dash.keptTwice = dash.keptA

\* The value stage of applyFilters has just run under specification a, with
\* a bound given and a numeric column found.
ValueStageRan ==
    /\ dash.op = "filter" /\ dash.pc = "again"
    /\ dash.a.present
    /\ dash.a.minValue # UNDEFINED \/ dash.a.maxValue # UNDEFINED
    /\ findNumericColumns(dash.headers, dash.rows) # {}

Unparseable(cell) == cell = "" \/ parseFloat(cleanNumber(cell)) = NaN

\* C22: the numeric-range filter keeps every row whose cell in the first
\* numeric column is empty or is no number, whatever the bounds are.
C22_UnparseableValuesKept ==
    ValueStageRan =>
        LET primaryMetricIndex ==
                First(findNumericColumns(dash.headers, dash.rows))
        IN  \A i \in DOMAIN dash.beforeA :
                Unparseable(dash.beforeA[i][primaryMetricIndex]) =>
                    \E j \in DOMAIN dash.keptA :
                        dash.keptA[j] = dash.beforeA[i]

-----------------------------------------------------------------------------
(* backend/dashboard/analyze.ts: generateChartData *)

\* The columns of a set, as the sequence of their positions in the order of
\* the headers.
RECURSIVE InOrder(_)
InOrder(columns) ==
    IF columns = {} THEN <<>>
    ELSE <<First(columns)>> \o InOrder(columns \ {First(columns)})

Prefix(q, n) == SubSeq(q, 1, Smaller(n, Len(q)))

\* date a is before date b: new Date(a).getTime() - new Date(b).getTime() < 0
DateBefore(a, b) ==
    /\ DateTime(a.date) # NaN /\ DateTime(b.date) # NaN
    /\ DateTime(a.date).n < DateTime(b.date).n

\* b.value - a.value < 0
Larger(a, b) == a.value > b.value

\* The comparators of generateChartData: comparator(a, b) < 0.  A comparator
\* that gives NaN orders neither way.
OrderedBefore(order, a, b) ==
    IF order = "date" THEN DateBefore(a, b) ELSE Larger(a, b)

\* Array.prototype.sort with a comparator, as a stable insertion: an element
\* goes before the first one it is ordered before.
RECURSIVE InsertInto(_, _, _)
InsertInto(sorted, x, order) ==
    IF sorted = <<>> THEN <<x>>
    ELSE IF OrderedBefore(order, x, Head(sorted)) THEN <<x>> \o sorted
    ELSE <<Head(sorted)>> \o InsertInto(Tail(sorted), x, order)

RECURSIVE SortBy(_, _)
SortBy(q, order) ==
    IF q = <<>> THEN <<>>
    ELSE InsertInto(SortBy(SubSeq(q, 1, Len(q) - 1), order), q[Len(q)],
                    order)

\* formatDateLabel: toLocaleDateString of a date that parses, in the en-US
\* form and in a server zone of UTC; the text itself otherwise.
formatDateLabel(dateStr) ==
    IF DateTime(dateStr) = NaN THEN dateStr
    ELSE ToString(DigitsFrom(dateStr, 6, 0)) \o "/"
             \o ToString(DigitsFrom(dateStr, 9, 0)) \o "/"
             \o ToString(DigitsFrom(dateStr, 1, 0))

\* The points of the line chart of a numeric column: one for every row with
\* a date cell that is not empty (parseNumericValue never gives NaN).
timeSeriesData(rows, dateIndex, numericIndex) ==
    LET dated == SelectSeq(rows, LAMBDA row : row[dateIndex] # "")
    IN  [k \in DOMAIN dated |->
            [label |-> formatDateLabel(dated[k][dateIndex]),
             value |-> parseNumericValue(dated[k][numericIndex]),
             date |-> dated[k][dateIndex]]]

MinPoints == 2

LineChart(headers, rows, dateIndex, numericIndex) ==
    [type |-> "line", column |-> numericIndex,
     title |-> headers[numericIndex] \o " Over Time",
     data |-> SortBy(timeSeriesData(rows, dateIndex, numericIndex),
                     "date"),
     xAxisLabel |-> "Date", yAxisLabel |-> headers[numericIndex]]

lineCharts(headers, rows) ==
    LET dateColumns == findDateColumns(headers)
        numericColumns == InOrder(findNumericColumns(headers, rows))
        dateIndex == First(dateColumns)
        charted == SelectSeq(Prefix(numericColumns, 3), LAMBDA c :
                       Len(timeSeriesData(rows, dateIndex, c)) >= MinPoints)
    IN  IF dateColumns # {} /\ numericColumns # <<>>
        THEN [k \in DOMAIN charted |->
                 LineChart(headers, rows, dateIndex, charted[k])]
        ELSE <<>>

\* The sums of the values of the rows by group, the groups in the order in
\* which the rows bring them; rows with an empty group are left out.
RECURSIVE GroupSums(_, _, _, _)
GroupSums(rows, groupIndex, valueIndex, sums) ==
    IF rows = <<>> THEN sums
    ELSE LET group == Head(rows)[groupIndex]
             value == parseNumericValue(Head(rows)[valueIndex])
             at == {k \in DOMAIN sums : sums[k].label = group}
         IN  GroupSums(Tail(rows), groupIndex, valueIndex,
                 IF group = "" THEN sums
                 ELSE IF at = {}
                 THEN Append(sums, [label |-> group, value |-> value])
                 ELSE [k \in DOMAIN sums |->
                          IF k \in at
                          THEN [sums[k] EXCEPT !.value = @ + value]
                          ELSE sums[k]])

\* label.length > n ? label.substring(0, n) + '...' : label
Shortened(label, n) ==
    IF Len(label) > n THEN SubSeq(label, 1, n) \o "..." ELSE label

TopGroups(rows, groupIndex, valueIndex, count, width) ==
    LET top == Prefix(SortBy(GroupSums(rows, groupIndex, valueIndex, <<>>),
                             "value"), count)
    IN  [k \in DOMAIN top |->
            [label |-> Shortened(top[k].label, width),
             value |-> top[k].value]]

barCharts(headers, rows) ==
    LET dateColumns == findDateColumns(headers)
        numericColumns == findNumericColumns(headers, rows)
        categoricalColumns == findCategoricalColumns(headers, rows)
        others == DOMAIN headers \ (numericColumns \cup dateColumns)
        groupingIndex == IF categoricalColumns # {}
                             /\ headers[First(categoricalColumns)] # ""
                         THEN First(categoricalColumns)
                         ELSE IF others # {} THEN First(others) ELSE 0
        metricIndex == First(numericColumns)
        barData == TopGroups(rows, groupingIndex, metricIndex, 10, 20)
    IN  IF /\ numericColumns # {} /\ groupingIndex # 0
           /\ headers[groupingIndex] # "" /\ Len(barData) > 1
        THEN <<[type |-> "bar", column |-> metricIndex,
                title |-> "Top " \o headers[groupingIndex] \o " by "
                              \o headers[metricIndex],
                data |-> barData,
                xAxisLabel |-> headers[groupingIndex],
                yAxisLabel |-> headers[metricIndex]]>>
        ELSE <<>>

pieCharts(headers, rows) ==
    LET numericColumns == findNumericColumns(headers, rows)
        categoricalColumns == findCategoricalColumns(headers, rows)
        categoryIndex == First(categoricalColumns)
        valueIndex == First(numericColumns)
        pieData == TopGroups(rows, categoryIndex, valueIndex, 8, 15)
    IN  IF /\ categoricalColumns # {} /\ numericColumns # {}
           /\ Len(pieData) > 1
        THEN <<[type |-> "pie", column |-> valueIndex,
                title |-> headers[valueIndex] \o " Distribution by "
                              \o headers[categoryIndex],
                data |-> pieData, xAxisLabel |-> "", yAxisLabel |-> ""]>>
        ELSE <<>>

comparisonCharts(headers, rows) ==
    LET numericColumns == InOrder(findNumericColumns(headers, rows))
        compared == Prefix(numericColumns, 5)
    IN  IF Len(numericColumns) > 1
        THEN <<[type |-> "bar", column |-> 0,
                title |-> "Metrics Comparison",
                data |-> [k \in DOMAIN compared |->
                            [label |-> Shortened(headers[compared[k]], 15),
                             value |-> SumOf(ColumnValues(rows,
                                                          compared[k]))]],
                xAxisLabel |-> "Metrics", yAxisLabel |-> "Total Value"]>>
        ELSE <<>>

generateChartData(headers, rows) ==
    lineCharts(headers, rows) \o barCharts(headers, rows)
        \o pieCharts(headers, rows) \o comparisonCharts(headers, rows)

\* SpecCharts: generateChartData on the tables of SpecFilter.
InitCharts ==
    /\ now = 0 /\ ticks = 0
    /\ jobs = <<>> /\ nextJobId = 1
    /\ executions = <<>> /\ nextExecId = 1
    /\ analyses = {} /\ tasks = <<>>
    /\ poll = IdlePoll /\ calc = NoCalc
    /\ execLimit = 0
    /\ \E headers \in FilterHeaders, rows \in FilterTables :
          dash = [op |-> "charts", pc |-> "build", headers |-> headers,
                  rows |-> rows, charts |-> <<>>]

GenerateChartData ==
    /\ dash.op = "charts" /\ dash.pc = "build"
    /\ dash' = [dash EXCEPT !.pc = "done",
                   !.charts = generateChartData(dash.headers, dash.rows)]
    /\ UNCHANGED NotDash

NextCharts == GenerateChartData

SpecCharts == InitCharts /\ [][NextCharts]_vars

\* The rows with a date that parses and, in column c, a number that parses.
ValidPairs(c) ==
    LET dateIndex == First(findDateColumns(dash.headers))
    IN  {r \in DOMAIN dash.rows :
            /\ DateTime(dash.rows[r][dateIndex]) # NaN
            /\ ~Unparseable(dash.rows[r][c])}

\* C23: a line chart is emitted for a numeric column only when at least 2
\* rows hold a date that parses and a number that parses in that column, and
\* it holds a point for those rows only.
C23_LineChartNeedsTwoValidPoints ==
    (dash.op = "charts" /\ dash.pc = "done") =>
        \A k \in DOMAIN dash.charts :
            dash.charts[k].type = "line" =>
                /\ Cardinality(ValidPairs(dash.charts[k].column)) >= 2
                /\ Len(dash.charts[k].data)
                       = Cardinality(ValidPairs(dash.charts[k].column))

-----------------------------------------------------------------------------
(* Properties of calculateNextRun for monthly jobs *)

MonthlyCallDone ==
    /\ calc.pc = "done" /\ calc.frequency = "monthly"
    /\ calc.dayOfMonth.k = "num" /\ calc.dayOfMonth.n \in 1 .. 31

\* timeOfDay on day dayOfMonth of month mi, when the month has that day.
DayInMonth(mi, dayOfMonth, timeOfDay) ==
    At(FirstDay(mi) + dayOfMonth - 1, timeOfDay[1], timeOfDay[2])

\* C24: for a monthly job with dayOfMonth in 1..31 the result falls on day
\* dayOfMonth, at timeOfDay, in the month of the call when that instant is
\* strictly after the call and in the following month otherwise.
C24_MonthlyOnDayOfMonth ==
    MonthlyCallDone =>
        LET mi == getMonth(calc.t)
            thisMonth == DayInMonth(mi, calc.dayOfMonth.n, calc.timeOfDay)
        IN  /\ getDate(calc.result) = calc.dayOfMonth.n
            /\ getMonth(calc.result) \in {mi, mi + 1}
            /\ calc.result = IF thisMonth > calc.t THEN thisMonth
                             ELSE DayInMonth(mi + 1, calc.dayOfMonth.n,
                                             calc.timeOfDay)

-----------------------------------------------------------------------------
(* Properties of calculateNextRun in its timezone argument *)

-----------------------------------------------------------------------------
(* findNumericColumns on tables longer than its sample *)

MaxSampleRows == 11

SampleHeaders == {<<"score">>, <<"clicks">>}
SampleCells == {"$1,200", "n/a"}
SampleTables ==
    UNION {[1 .. n -> {<<cell>> : cell \in SampleCells}] :
              n \in 1 .. MaxSampleRows}

InitColumns ==
    /\ now = 0 /\ ticks = 0
    /\ jobs = <<>> /\ nextJobId = 1
    /\ executions = <<>> /\ nextExecId = 1
    /\ analyses = {} /\ tasks = <<>>
    /\ poll = IdlePoll /\ calc = NoCalc
    /\ execLimit = 0
    /\ \E headers \in SampleHeaders, rows \in SampleTables :
          dash = [op |-> "columns", pc |-> "detect", headers |-> headers,
                  rows |-> rows, numericColumns |-> {}]

FindNumericColumns ==
    /\ dash.op = "columns" /\ dash.pc = "detect"
    /\ dash' = [dash EXCEPT !.pc = "done",
                   !.numericColumns =
                       findNumericColumns(dash.headers, dash.rows)]
    /\ UNCHANGED NotDash

NextColumns == FindNumericColumns

SpecColumns == InitColumns /\ [][NextColumns]_vars

\* The sampled rows of column c that parse as a number once $ , % are
\* removed.
NumericInSample(c) ==
    {r \in 1 .. Smaller(SampleSizeNumeric, Len(dash.rows)) :
        ~Unparseable(dash.rows[r][c])}

\* C25: a column whose header has no numeric keyword is numeric exactly when
\* at least 70% of the sampled rows, the first min(10, n), parse as a number.
C25_SeventyPercentIsEnough ==
    (dash.op = "columns" /\ dash.pc = "done") =>
        \A c \in DOMAIN dash.headers :
            ~HasKeyword(dash.headers[c], numericKeywords) =>
                (c \in dash.numericColumns
                    <=> Cardinality(NumericInSample(c)) * 10
                            >= Smaller(SampleSizeNumeric, Len(dash.rows)) * 7)

-----------------------------------------------------------------------------
(* A paused job whose next_run has passed: updates, polls and executions.  *)

InitPause ==
    /\ now = At(41, 10, 0)
    /\ ticks = 0
    /\ \E req \in RunRequests :
          jobs = <<[CreatedRow(req, At(0, 10, 0)) EXCEPT !.isActive = FALSE]>>
    /\ nextJobId = 2
    /\ executions = <<>>
    /\ nextExecId = 1
    /\ analyses = {}
    /\ tasks = <<>>
    /\ poll = IdlePoll
    /\ calc = NoCalc
    /\ execLimit = MaxExec
    /\ dash = NoDash

NextPause == Update \/ PollQ \/ PollS \/ PollReturn \/ Execute

SpecPause == InitPause /\ [][NextPause]_vars

\* The update requests that carry none of the schedule fields.
OtherFieldUpdates == {req \in UpdateRequests : ~TouchesSchedule(req)}

\* C26: an update changes next_run only when its request carries frequency,
\* timeOfDay, dayOfWeek, dayOfMonth or timezone; an update of other fields,
\* isActive included, leaves next_run as it was, so that a job it activates
\* whose next_run has passed is among the due jobs of a poll made then.
C26_UpdateKeepsNextRun ==
    [][ \A j \in DOMAIN jobs, req \in OtherFieldUpdates, dbOk \in BOOLEAN :
            updateScheduledJob(j, req, dbOk) =>
                /\ jobs'[j].nextRun = jobs[j].nextRun
                /\ (jobs'[j].isActive /\ jobs[j].nextRun <= now) =>
                      \A order \in TieOrders :
                          \E k \in DOMAIN DueJobs(jobs', now, order) :
                              DueJobs(jobs', now, order)[k] = j ]_vars

\* The job that began paused is active with the next_run it began with, and
\* a poll has started an execution for it.
C26_Witness ==
    /\ 1 \in DOMAIN jobs
    /\ jobs[1].isActive
    /\ jobs[1].frequency = "daily"
    /\ jobs[1].nextRun = At(1, 9, 0)
    /\ jobs[1].nextRun <= now
    /\ \E e \in poll.created : executions[e].jobId = 1

-----------------------------------------------------------------------------
(* Manual triggers of a job that is active or paused, before or after its  *)
(* next_run, and of a job that has been deleted.                           *)

TriggerInstants == {At(1, 8, 0), At(41, 10, 0)}

InitTrigger ==
    /\ now \in TriggerInstants
    /\ ticks = 0
    /\ \E req \in RunRequests, active \in BOOLEAN :
          jobs = <<[CreatedRow(req, At(0, 10, 0)) EXCEPT !.isActive = active]>>
    /\ nextJobId = 2
    /\ executions = <<>>
    /\ nextExecId = 1
    /\ analyses = {}
    /\ tasks = <<>>
    /\ poll = IdlePoll
    /\ calc = NoCalc
    /\ execLimit = MaxExec + 1
    /\ dash = NoDash

NextTrigger == Delete \/ Trigger \/ Execute

SpecTrigger == InitTrigger /\ [][NextTrigger]_vars

\* The trigger of job j, the store working, inserts an execution.
TriggerStarts(j) ==
    /\ triggerJobExecution(j, TRUE)
    /\ nextExecId' = nextExecId + 1

-----------------------------------------------------------------------------
(* Properties of deleteScheduledJob against executions in flight *)

\* Every row of job_executions and of historical_analyses references rows
\* that exist.
ReferencesHold ==
    /\ \A e \in DOMAIN executions : executions[e].jobId \in DOMAIN jobs
    /\ \A a \in analyses :
          a.jobId \in DOMAIN jobs /\ a.executionId \in DOMAIN executions

-----------------------------------------------------------------------------
(* backend/dashboard/unified-metrics.ts: addMetricSource over the table    *)
(* metric_sources.                                                         *)

MaxSources == 2

\* CHECK (status IN ('active', 'processing', 'error'))
AllowedStatuses == {"active", "processing", "error"}
\* CHECK (platform IN (...)); a NULL passes, and the handler never binds one.
AllowedPlatforms == {"google-analytics", "google-ads", "facebook-ads", "manual"}

\* fileId is "" and platform is "" when the request does not carry them.
NoIntegrationData == [present |-> FALSE, startDate |-> "", endDate |-> ""]
AddRequests ==
    [type : {"file", "integration"},
     platform : {"", "google-analytics"},
     fileId : {"", "file_1"},
     integrationData : {NoIntegrationData,
                        [present |-> TRUE, startDate |-> "2024-01-01",
                         endDate |-> "2024-01-31"]}]

\* The three statements of a call, each working or failing in the store.
StoreOutcomes == [insert : BOOLEAN, process : BOOLEAN, mark : BOOLEAN]
StoreWorks == [insert |-> TRUE, process |-> TRUE, mark |-> TRUE]

\* INSERT INTO metric_sources (...) VALUES (..., 'processing', NOW())
InsertedSource(req) ==
    [type |-> req.type,
     platform |-> IF req.platform # "" THEN req.platform ELSE "manual",
     status |-> "processing", rowCount |-> NULL,
     dateRangeStart |-> "", dateRangeEnd |-> ""]

\* An UPDATE of metric_sources goes through when the store works and the
\* row it writes passes the CHECKs of the table.
Accepted(row, works) ==
    works /\ row.status \in AllowedStatuses
          /\ row.platform \in AllowedPlatforms

\* UPDATE metric_sources SET status = 'error'; a failure of this statement
\* is thrown from the catch block in place of the first error.
MarkedError(row, store) ==
    LET marked == [row EXCEPT !.status = "error"]
    IN  [row |-> IF Accepted(marked, store.mark) THEN marked ELSE row,
         thrown |-> TRUE, written |-> <<"error">>]

\* The row and the outcome of the try block and its catch block, for the
\* row the try block writes.
Processed(row, attempt, store) ==
    IF Accepted(attempt, store.process)
    THEN [row |-> attempt, thrown |-> FALSE, written |-> <<attempt.status>>]
    ELSE [MarkedError(row, store) EXCEPT
             !.written = <<attempt.status>> \o @]

processFileSource(row, fileId, store) ==
    Processed(row, [row EXCEPT !.status = "completed", !.rowCount = Num(100)],
              store)

processIntegrationSource(row, integrationData, platform, store) ==
    Processed(row,
              [row EXCEPT !.status = "completed", !.rowCount = Num(250),
                          !.dateRangeStart = integrationData.startDate,
                          !.dateRangeEnd = integrationData.endDate],
              store)

\* The request is one the handler processes.
IsProcessed(req) ==
    \/ req.type = "file" /\ req.fileId # ""
    \/ req.type = "integration" /\ req.integrationData.present

\* What the handler did to the new row, and what it answers.
AddOutcome(req, store) ==
    LET row == InsertedSource(req)
        done == IF req.type = "file" /\ req.fileId # ""
                THEN processFileSource(row, req.fileId, store)
                ELSE IF req.type = "integration" /\ req.integrationData.present
                THEN processIntegrationSource(row, req.integrationData,
                                              req.platform, store)
                ELSE [row |-> row, thrown |-> FALSE, written |-> <<>>]
    IN  IF ~Accepted(row, store.insert)
        THEN [rows |-> <<>>, written |-> <<>>, response |-> "Internal"]
        ELSE [rows |-> <<done.row>>,
              written |-> <<"processing">> \o done.written,
              response |-> IF done.thrown THEN "Internal" ELSE "processing"]

NoCall == [made |-> FALSE]

InitSources ==
    /\ now = 0 /\ ticks = 0
    /\ jobs = <<>> /\ nextJobId = 1
    /\ executions = <<>> /\ nextExecId = 1
    /\ analyses = {} /\ tasks = <<>>
    /\ poll = IdlePoll /\ calc = NoCalc
    /\ execLimit = 0
    /\ dash = [op |-> "sources", sources |-> <<>>, last |-> NoCall]

\* last, which is not state of the code, records the latest call: its
\* request, the store's behaviour, the statuses it wrote or tried to write,
\* and its answer.
addMetricSource(req, store) ==
    /\ dash.op = "sources"
    /\ Len(dash.sources) < MaxSources
    /\ dash' = [dash EXCEPT
                   !.sources = @ \o AddOutcome(req, store).rows,
                   !.last = [made |-> TRUE, req |-> req, store |-> store,
                             written |-> AddOutcome(req, store).written,
                             response |-> AddOutcome(req, store).response]]
    /\ UNCHANGED NotDash

NextSources ==
    \E req \in AddRequests, store \in StoreOutcomes : addMetricSource(req, store)

SpecSources == InitSources /\ [][NextSources]_vars

\* C30: a call for a file source with a fileId or an integration source
\* with integrationData, the store working, answers with status processing,
\* writes only statuses that the table allows, and leaves the new source in
\* a status other than error.
C30_ProcessedSourceNotInError ==
    (/\ dash.op = "sources" /\ dash.last.made
     /\ IsProcessed(dash.last.req) /\ dash.last.store = StoreWorks) =>
        /\ dash.last.response = "processing"
        /\ \A k \in DOMAIN dash.last.written :
              dash.last.written[k] \in AllowedStatuses
        /\ dash.sources[Len(dash.sources)].status \in {"processing", "active"}

====
